---- MODULE Spec2Model ----
(***************************************************************************)
(* Status reconciliation and redirect engine of grants-ui.                  *)
(*                                                                         *)
(* Strings are modelled by what the code does with them:                   *)
(*  - a comma-separated status field is the sequence of its comma-separated *)
(*    items; an item is its text plus a flag saying whether it carries      *)
(*    surrounding white space (String.trim removes it, === does not);       *)
(*    the empty sequence is the missing / empty field;                      *)
(*  - a path is the sequence of its lexemes, "/" being a lexeme, so that    *)
(*    startsWith('/') and template concatenation are computed.             *)
(***************************************************************************)
EXTENDS Integers, Sequences, FiniteSets, TLC

\* ------------------------------------------------------------------ bounds
MaxRules == 2
MaxHops == 3

\* --------------------------------------------------------------- constants
\* JavaScript undefined
NoValue == "undefined"

\* statusCodes.notFound
notFound == 404

\* statusCodes.noContent, and a submission status other than it
noContent == 204
badRequest == 400

\* err.status of an error that carries none
NoStatus == 0

\* agreements.get('baseUrl')
BaseUrl == <<"/", "agreement">>

\* ----------------------------------------------------------------- strings
\* an item of a comma-separated field without / with surrounding white space
S(text) == [ws |-> FALSE, text |-> text]
P(text) == [ws |-> TRUE, text |-> text]

\* String.prototype.trim on one item
Trim(item) == item.text

\* new Set((field || 'default').split(',').map((s) => s.trim()))
StatusSet(field) ==
  LET str == IF field = <<>> THEN <<S("default")>> ELSE field
  IN  { Trim(str[i]) : i \in 1..Len(str) }

\* path.startsWith('/')
StartsWithSlash(path) == Len(path) > 0 /\ path[1] = "/"

\* ---------------------------------------------------------- rule matching
\* mutant: gasStatus compared as one string, not as a comma-separated list
RuleMatchesGasExact(rule, fromGrantsStatus, gasStatus) ==
  LET fromStatuses == StatusSet(rule.fromGrantsStatus)
      fromMatch    == fromGrantsStatus \in fromStatuses \/ "default" \in fromStatuses
      gasMatch     == rule.gasStatus = <<S(gasStatus)>> \/ rule.gasStatus = <<S("default")>>
  IN  fromMatch /\ gasMatch

\* the predicate handed to redirectRules.find
RuleMatches(rule, fromGrantsStatus, gasStatus) ==
  LET fromStatuses == StatusSet(rule.fromGrantsStatus)
      gasStatuses  == StatusSet(rule.gasStatus)
      fromMatch    == fromGrantsStatus \in fromStatuses \/ "default" \in fromStatuses
      gasMatch     == gasStatus \in gasStatuses \/ "default" \in gasStatuses
  IN  fromMatch /\ gasMatch

\* mutant: the scan keeps the last matching rule instead of the first
RECURSIVE FindLastFrom(_, _, _, _)
FindLastFrom(redirectRules, i, fromGrantsStatus, gasStatus) ==
  IF i > Len(redirectRules) THEN 0
  ELSE LET rest == FindLastFrom(redirectRules, i + 1, fromGrantsStatus, gasStatus)
       IN  IF rest # 0 THEN rest
           ELSE IF RuleMatches(redirectRules[i], fromGrantsStatus, gasStatus) THEN i
           ELSE 0

\* Array.prototype.find: index of the first element satisfying the predicate,
\* scanning from index i; 0 when there is none
RECURSIVE FindFrom(_, _, _, _)
FindFrom(redirectRules, i, fromGrantsStatus, gasStatus) ==
  IF i > Len(redirectRules) THEN 0
  ELSE IF RuleMatches(redirectRules[i], fromGrantsStatus, gasStatus) THEN i
  ELSE FindFrom(redirectRules, i + 1, fromGrantsStatus, gasStatus)

\* mapStatusToUrl: the matched rule, or the thrown error
mapStatusToUrl(fromGrantsStatus, gasStatus, redirectRules) ==
  LET match == FindFrom(redirectRules, 1, fromGrantsStatus, gasStatus)
  IN  IF match = 0
      THEN [threw |-> TRUE, error |-> "No redirect rule found", index |-> 0]
      ELSE [threw |-> FALSE, rule |-> redirectRules[match], index |-> match]

\* ------------------------------------------------------------- validation
\* Joi.string().required(): present and not empty
JoiStatusField(field) == field # <<>>

\* Joi.string().required() for toGrantsStatus
JoiString(value) == value # NoValue /\ value # ""

\* Joi.string().pattern(/^\/.*/).required()
JoiPath(path) == path # <<>> /\ StartsWithSlash(path)

\* preSubmissionRuleSchema
preSubmissionRuleSchema(rule) == JoiPath(rule.toPath)

\* mutant: toPath is required but its pattern is not checked
postSubmissionRuleSchemaNoPattern(rule) ==
  /\ JoiStatusField(rule.fromGrantsStatus)
  /\ JoiStatusField(rule.gasStatus)
  /\ JoiString(rule.toGrantsStatus)
  /\ rule.toPath # <<>>

\* postSubmissionRuleSchema
postSubmissionRuleSchema(rule) ==
  /\ JoiStatusField(rule.fromGrantsStatus)
  /\ JoiStatusField(rule.gasStatus)
  /\ JoiString(rule.toGrantsStatus)
  /\ JoiPath(rule.toPath)

\* mutant: the fallback check is skipped
hasFallbackRuleAlways(postSubmission) == TRUE

\* mutant: the fallback check looks at fromGrantsStatus only
hasFallbackRuleFromOnly(postSubmission) ==
  \E i \in 1..Len(postSubmission) :
    postSubmission[i].fromGrantsStatus = <<S("default")>>

\* postSubmission.some(rule => fromGrantsStatus === 'default' && gasStatus === 'default')
hasFallbackRule(postSubmission) ==
  \E i \in 1..Len(postSubmission) :
    /\ postSubmission[i].fromGrantsStatus = <<S("default")>>
    /\ postSubmission[i].gasStatus = <<S("default")>>

\* mutant: the pre-submission list is validated without .length(1)
validateGrantRedirectRulesAnyLength(grantRedirectRules) ==
  LET preSubmission  == grantRedirectRules.preSubmission
      postSubmission == grantRedirectRules.postSubmission
  IN  IF ~(\A i \in 1..Len(preSubmission) : preSubmissionRuleSchema(preSubmission[i]))
      THEN "preError"
      ELSE IF ~(\A i \in 1..Len(postSubmission) : postSubmissionRuleSchema(postSubmission[i]))
      THEN "postError"
      ELSE IF Len(postSubmission) = 0
      THEN "noPostSubmissionRules"
      ELSE IF ~hasFallbackRule(postSubmission)
      THEN "missingFallbackRule"
      ELSE "ok"

\* validateGrantRedirectRules: "ok", or the error it throws
validateGrantRedirectRules(grantRedirectRules) ==
  LET preSubmission  == grantRedirectRules.preSubmission
      postSubmission == grantRedirectRules.postSubmission
  IN  IF ~(Len(preSubmission) = 1 /\ \A i \in 1..Len(preSubmission) : preSubmissionRuleSchema(preSubmission[i]))
      THEN "preError"
      ELSE IF ~(\A i \in 1..Len(postSubmission) : postSubmissionRuleSchema(postSubmission[i]))
      THEN "postError"
      ELSE IF Len(postSubmission) = 0
      THEN "noPostSubmissionRules"
      ELSE IF ~hasFallbackRule(postSubmission)
      THEN "missingFallbackRule"
      ELSE "ok"

\* ================================================================= state

VARIABLES
  candidate,    \* the grantRedirectRules of the definition under validation
  fromArg,      \* mapStatusToUrl's fromGrantsStatus argument
  gasArg,       \* mapStatusToUrl's gasStatus argument
  verdict,      \* what validateGrantRedirectRules did: NoValue (not run), "ok" or its error
  matched,      \* what mapStatusToUrl did: [ran |-> FALSE], or its outcome
  grantCode,    \* metadata.submission.grantCode of the served definition
  tasklistId,   \* metadata.tasklistId of the served definition
  state,        \* the session state held by the Session State Store
  gas,          \* what GAS answers to a status request for the reference number
  pc,           \* per tab: where its page request stands in formsStatusCallback
  path,         \* per tab: request.path
  context,      \* per tab: context.state, read when the request arrived
  gasStatus,    \* per tab: the status GAS returned to this request
  ruleMatch,    \* per tab: the outcome of mapStatusToUrl on the success branch
  result,       \* per tab: what formsStatusCallback returned or threw
  calls,        \* per tab: the external calls this request made, in order
  caught,       \* per tab: the error formsStatusCallback's catch block received
  hops,         \* per tab: redirects the browser followed in a row to get here
  shared,       \* the sharedRedirectRules loaded from the shared rules file
  own,          \* metadata.grantRedirectRules as the form's own definition declares it
  sbiSelectorEnabled, \* process.env.SBI_SELECTOR_ENABLED === 'true'
  sbi,          \* sbiStore.get('sbi')
  cachedKey,    \* the module-level cachedKey
  cachedSbi,    \* the module-level cachedSbi
  backend,      \* what the Grants UI Backend does with a state request
  hydration,    \* what the last session hydration did
  defraIdEnabled,   \* config.get('defraId.enabled')
  refreshEnabled,   \* config.get('defraId.refreshTokens')
  cache,        \* server.app.cache: the user session stored per session id
  validated     \* what the last cookie validation did

ruleVars == <<candidate, fromArg, gasArg, verdict, matched>>

sessionVars == <<grantCode, tasklistId, state, gas>>

tabVars == <<pc, path, context, gasStatus, ruleMatch, result, calls, caught, hops>>

formVars == <<shared, own>>

keyVars == <<sbiSelectorEnabled, sbi, cachedKey, cachedSbi>>

hydrationVars == <<backend, hydration>>

cookieVars == <<defraIdEnabled, refreshEnabled, cache, validated>>

serverVars == <<formVars, keyVars, hydrationVars, cookieVars>>

vars == <<ruleVars, sessionVars, tabVars, serverVars>>

\* ================================================================ rule lists
\* The rule-matching engine and the startup validation as pure functions:
\* a grant definition and a status pair are drawn, validated and matched.

Path(name) == <<"/", name>>

\* the fromGrantsStatus fields of the candidate rules
FromFields ==
  { <<S("default")>>, <<S("SUBMITTED"), P("REOPENED")>>, <<>> }

\* the gasStatus fields of the candidate rules
GasFields ==
  { <<S("default")>>, <<S("AWAITING_AMENDMENTS")>>, <<S("OFFER_SENT"), S("OFFER_WITHDRAWN")>> }

\* the (toGrantsStatus, toPath) parts of the candidate rules: a valid one and
\* one with a relative path, which the schema rejects
Targets ==
  { [toGrantsStatus |-> "SUBMITTED", toPath |-> Path("confirmation")],
    [toGrantsStatus |-> "CLEARED", toPath |-> <<"start">>] }

CandidateRules ==
  { [fromGrantsStatus |-> f, gasStatus |-> g, toGrantsStatus |-> t.toGrantsStatus, toPath |-> t.toPath] :
      f \in FromFields, g \in GasFields, t \in Targets }

SeqsUpTo(set, n) == UNION { [1..k -> set] : k \in 0..n }

CandidatePreSubmission ==
  { <<>>, <<[toPath |-> Path("check")]>>, <<[toPath |-> Path("check")], [toPath |-> Path("summary")]>> }

\* portal statuses handed to the matcher ('default' is what the fallback branch passes)
FromArgs == { "SUBMITTED", "REOPENED", "CLEARED", "default" }

\* GAS statuses: known ones, one no rule names, and the word 'default' itself
GasArgs == { "AWAITING_AMENDMENTS", "OFFER_SENT", "OFFER_WITHDRAWN", "RECEIVED", "default" }

\* =================================================================== session
\* One applicant session of one grant: the Session State Store record, GAS,
\* and the page requests of the applicant's browser tabs, each passing through
\* formsStatusCallback.

Tabs == { "t1", "t2" }

\* request.params.slug of the grant's routes; request.auth.credentials
Slug == "grant-a"
Sbi == "12345"
Crn == "CRN123"

\* context.referenceNumber and its toLowerCase()
ReferenceNumber == "REF-001"
toLowerCase(text) == IF text = "REF-001" THEN "ref-001" ELSE text

\* context.paths[0]
StartPath == Path("start")

\* route /{slug}/{path*}: request.params.slug of a path, undefined off the grant's routes
SlugOf(requestPath) ==
  IF Len(requestPath) >= 4 /\ requestPath[1] = "/" /\ requestPath[3] = "/"
  THEN requestPath[2]
  ELSE NoValue

\* ---------------------------------------------------------- session state
\* a state object is a function from its keys to their values
EmptyState == [k \in {} |-> NoValue]

HasKey(obj, key) == key \in DOMAIN obj

\* obj[key], undefined when the key is absent
Get(obj, key) == IF key \in DOMAIN obj THEN obj[key] ELSE NoValue

\* { ...obj, ...more }
Spread(obj, more) ==
  [k \in DOMAIN obj \cup DOMAIN more |-> IF k \in DOMAIN more THEN more[k] ELSE obj[k]]

\* cacheService.setState(request, newState): full replace
setState(newState) == newState

\* updateApplicationStatus(newStatus, key): the narrower update of the
\* applicationStatus field of the record of this identity
updateApplicationStatus(old, newStatus) ==
  Spread(old, [applicationStatus |-> newStatus])

\* mutant: only the reference number and the status are bookkeeping keys
hasMeaningfulStateTwoKeys(st) ==
  \E k \in DOMAIN st : k \notin { "$$__referenceNumber", "applicationStatus" }

\* hasMeaningfulState
hasMeaningfulState(st) ==
  LET base  == { "$$__referenceNumber", "applicationStatus", "applicant" }
      farm  == { "selectedLandParcel", "payment", "draftApplicationAnnualTotalPence" }
      parcels == IF HasKey(st, "landParcels") THEN st["landParcels"] ELSE {}
      baseStateKeys == base \cup farm \cup (IF Cardinality(parcels) = 0 THEN { "landParcels" } ELSE {})
  IN  \E k \in DOMAIN st : k \notin baseStateKeys

\* isFormsStartPage
isFormsStartPage(requestPath) ==
  LET slug == SlugOf(requestPath)
  IN  IF slug = NoValue \/ StartPath = <<>> THEN FALSE
      ELSE requestPath = <<"/", slug>> \o StartPath

\* isTasklistPage
isTasklistPage == tasklistId # NoValue

\* shouldHandlePreSubmission
shouldHandlePreSubmission(previousStatus) ==
  previousStatus = NoValue \/ previousStatus = "CLEARED" \/ previousStatus = "REOPENED"

\* buildRedirectUrl
buildRedirectUrl(grantId, toPath) ==
  IF StartsWithSlash(toPath) THEN <<"/", grantId>> \o toPath ELSE <<"/", grantId, "/">> \o toPath

\* the outcomes of formsStatusCallback
Continue == [kind |-> "continue"]
Redirect(url) == [kind |-> "redirect", url |-> url]
Throw(error) == [kind |-> "throw", error |-> error]
Pending == [kind |-> "pending"]

\* mutant: the redirect is issued without comparing with the requested path
RedirectAlways(requestPath, url) == Redirect(url)

\* request.path === url ? h.continue : h.redirect(url).takeover()
RedirectUnlessThere(requestPath, url) ==
  IF requestPath = url THEN Continue ELSE Redirect(url)

\* preSubmissionRedirect
preSubmissionRedirect(requestPath, st) ==
  LET grantId == SlugOf(requestPath)
      preSubmissionRedirectRule == candidate.preSubmission[1]
      preSubmissionRedirectUrl ==
        IF StartsWithSlash(preSubmissionRedirectRule.toPath)
        THEN <<"/", grantId>> \o preSubmissionRedirectRule.toPath
        ELSE <<"/", grantId, "/">> \o preSubmissionRedirectRule.toPath
  IN  IF hasMeaningfulState(st) /\ isFormsStartPage(requestPath) /\ ~isTasklistPage
      THEN Redirect(preSubmissionRedirectUrl)
      ELSE Continue

\* shouldContinueDefault
shouldContinueDefault(gasSt, newStatus, previousStatus) ==
  \/ gasSt = "AWAITING_AMENDMENTS" /\ newStatus = "REOPENED" /\ previousStatus # "SUBMITTED"
  \/ gasSt = "APPLICATION_WITHDRAWN" /\ newStatus = "CLEARED" /\ previousStatus \notin { "SUBMITTED", "REOPENED" }

\* the external calls a request makes
GetStatusCall(code, reference) ==
  [op |-> "getApplicationStatus", grantCode |-> code, referenceNumber |-> reference]
SetStateCall(newState) == [op |-> "setState", state |-> newState]
UpdateStatusCall(newStatus, key) == [op |-> "updateApplicationStatus", status |-> newStatus, key |-> key]
LogCall(code, reference, message) ==
  [op |-> "log", code |-> "SUBMISSION_REDIRECT_FAILURE", grantType |-> code,
   referenceNumber |-> reference, error |-> message]

\* mutant: CLEARED goes through the narrower status update like the others
persistStatusNoRewrite(newStatus, previousStatus, grantId) ==
  IF newStatus = previousStatus THEN <<>>
  ELSE <<UpdateStatusCall(newStatus, <<Sbi, ":", grantId>>)>>

\* mutant: the write is issued even when the status does not change
persistStatusAlways(newStatus, previousStatus, grantId) ==
  IF newStatus = "CLEARED"
  THEN <<SetStateCall([applicationStatus |-> "CLEARED"])>>
  ELSE <<UpdateStatusCall(newStatus, <<Sbi, ":", grantId>>)>>

\* persistStatus: the write it issues, if any
persistStatus(newStatus, previousStatus, grantId) ==
  IF newStatus = previousStatus THEN <<>>
  ELSE IF newStatus = "CLEARED"
  THEN <<SetStateCall([applicationStatus |-> "CLEARED"])>>
  ELSE <<UpdateStatusCall(newStatus, <<Sbi, ":", grantId>>)>>

\* mutant: every rule path gets the slug prefix
postSubmissionOutcomeAlwaysPrefixed(requestPath, gasSt, matchedRule, previousStatus) ==
  IF shouldContinueDefault(gasSt, matchedRule.toGrantsStatus, previousStatus)
  THEN Continue
  ELSE RedirectUnlessThere(requestPath, buildRedirectUrl(SlugOf(requestPath), matchedRule.toPath))

\* the tail of handlePostSubmission, after persistStatus has resolved
postSubmissionOutcome(requestPath, gasSt, matchedRule, previousStatus) ==
  LET grantId == SlugOf(requestPath)
      redirectUrl == IF matchedRule.toPath = BaseUrl THEN matchedRule.toPath
                     ELSE buildRedirectUrl(grantId, matchedRule.toPath)
  IN  IF shouldContinueDefault(gasSt, matchedRule.toGrantsStatus, previousStatus)
      THEN Continue
      ELSE RedirectUnlessThere(requestPath, redirectUrl)

\* an error: err.status is undefined unless the failing call sets it
Error(status, message) == [status |-> status, message |-> message]

\* mutant: without a fallback rule the request is let through
handlePostSubmissionErrorLenient(err, requestPath) ==
  LET grantId == SlugOf(requestPath)
      fallbackRule == mapStatusToUrl("default", "default", candidate.postSubmission)
  IN  IF err.status = notFound
      THEN [logged |-> <<>>, result |-> Continue]
      ELSE [logged |-> <<LogCall(grantCode, ReferenceNumber, err.message)>>,
            result |-> IF fallbackRule.threw THEN Continue
                       ELSE RedirectUnlessThere(requestPath, buildRedirectUrl(grantId, fallbackRule.rule.toPath))]

\* mutant: not-found is handled like every other failure
handlePostSubmissionErrorNo404(err, requestPath) ==
  LET grantId == SlugOf(requestPath)
      fallbackRule == mapStatusToUrl("default", "default", candidate.postSubmission)
  IN  [logged |-> <<LogCall(grantCode, ReferenceNumber, err.message)>>,
       result |-> IF fallbackRule.threw THEN Throw(fallbackRule.error)
                  ELSE RedirectUnlessThere(requestPath, buildRedirectUrl(grantId, fallbackRule.rule.toPath))]

\* mutant: the failure is not logged
handlePostSubmissionErrorSilent(err, requestPath) ==
  LET grantId == SlugOf(requestPath)
      fallbackRule == mapStatusToUrl("default", "default", candidate.postSubmission)
  IN  [logged |-> <<>>,
       result |-> IF err.status = notFound THEN Continue
                  ELSE IF fallbackRule.threw THEN Throw(fallbackRule.error)
                  ELSE RedirectUnlessThere(requestPath, buildRedirectUrl(grantId, fallbackRule.rule.toPath))]

\* mutant: a failure other than not-found is logged and thrown on
handlePostSubmissionErrorRethrows(err, requestPath) ==
  IF err.status = notFound
  THEN [logged |-> <<>>, result |-> Continue]
  ELSE [logged |-> <<LogCall(grantCode, ReferenceNumber, err.message)>>, result |-> Throw(err.message)]

\* handlePostSubmissionError: the log entries it writes and what it returns
handlePostSubmissionError(err, requestPath) ==
  LET grantId == SlugOf(requestPath)
      fallbackRule == mapStatusToUrl("default", "default", candidate.postSubmission)
  IN  IF err.status = notFound
      THEN [logged |-> <<>>, result |-> Continue]
      ELSE [logged |-> <<LogCall(grantCode, ReferenceNumber, err.message)>>,
            result |-> IF fallbackRule.threw THEN Throw(fallbackRule.error)
                       ELSE RedirectUnlessThere(requestPath, buildRedirectUrl(grantId, fallbackRule.rule.toPath))]

\* getGrantCode
getGrantCode ==
  IF grantCode = NoValue
  THEN Throw("grantCode missing from request.app.model.def.metadata.submission")
  ELSE [kind |-> "value", value |-> grantCode]

\* ------------------------------------------------------------ the requests
NoRule == [ran |-> FALSE]

\* mutant: formsStatusCallback goes on to the status fetch whatever the
\* stored status is
formsStatusCallbackAlwaysFetches(requestPath, st) ==
  IF SlugOf(requestPath) = NoValue THEN Continue
  ELSE IF getGrantCode.kind = "throw" THEN getGrantCode
  ELSE Pending

\* mutant: every status the pre-submission branch does not take goes on to
\* the status fetch
formsStatusCallbackNoSubmittedCheck(requestPath, st) ==
  IF SlugOf(requestPath) = NoValue THEN Continue
  ELSE IF getGrantCode.kind = "throw" THEN getGrantCode
  ELSE IF shouldHandlePreSubmission(Get(st, "applicationStatus")) THEN preSubmissionRedirect(requestPath, st)
  ELSE Pending

\* mutant: the grantCode is looked up only when the status fetch needs it
formsStatusCallbackLateGrantCode(requestPath, st) ==
  IF SlugOf(requestPath) = NoValue THEN Continue
  ELSE IF shouldHandlePreSubmission(Get(st, "applicationStatus")) THEN preSubmissionRedirect(requestPath, st)
  ELSE IF Get(st, "applicationStatus") # "SUBMITTED" THEN Continue
  ELSE IF getGrantCode.kind = "throw" THEN getGrantCode
  ELSE Pending

\* mutant: a CLEARED status is reconciled with GAS like a SUBMITTED one
formsStatusCallbackClearedFetches(requestPath, st) ==
  IF SlugOf(requestPath) = NoValue THEN Continue
  ELSE IF getGrantCode.kind = "throw" THEN getGrantCode
  ELSE IF Get(st, "applicationStatus") = "CLEARED" THEN Pending
  ELSE IF shouldHandlePreSubmission(Get(st, "applicationStatus")) THEN preSubmissionRedirect(requestPath, st)
  ELSE IF Get(st, "applicationStatus") # "SUBMITTED" THEN Continue
  ELSE Pending

\* mutant: a REOPENED status is reconciled with GAS like a SUBMITTED one
formsStatusCallbackReopenedFetches(requestPath, st) ==
  IF SlugOf(requestPath) = NoValue THEN Continue
  ELSE IF getGrantCode.kind = "throw" THEN getGrantCode
  ELSE IF Get(st, "applicationStatus") = "REOPENED" THEN Pending
  ELSE IF shouldHandlePreSubmission(Get(st, "applicationStatus")) THEN preSubmissionRedirect(requestPath, st)
  ELSE IF Get(st, "applicationStatus") # "SUBMITTED" THEN Continue
  ELSE Pending

\* formsStatusCallback up to its first suspension point: what it returns or
\* throws there, or Pending when it goes on to handlePostSubmission
formsStatusCallback(requestPath, st) ==
  LET grantId        == SlugOf(requestPath)
      previousStatus == Get(st, "applicationStatus")
  IN  IF grantId = NoValue THEN Continue
      ELSE IF getGrantCode.kind = "throw" THEN getGrantCode
      ELSE IF shouldHandlePreSubmission(previousStatus) THEN preSubmissionRedirect(requestPath, st)
      ELSE IF previousStatus # "SUBMITTED" THEN Continue
      ELSE Pending

NoError == [status |-> NoStatus, message |-> ""]

\* a request arrives at requestPath: the engine reads the session state into
\* the context and formsStatusCallback runs up to its first suspension point
Arrive(r, requestPath, followed) ==
  LET early == formsStatusCallback(requestPath, state)
      fetch == GetStatusCall(grantCode, toLowerCase(ReferenceNumber))
  IN  /\ path' = [path EXCEPT ![r] = requestPath]
      /\ context' = [context EXCEPT ![r] = state]
      /\ gasStatus' = [gasStatus EXCEPT ![r] = NoValue]
      /\ ruleMatch' = [ruleMatch EXCEPT ![r] = NoRule]
      /\ caught' = [caught EXCEPT ![r] = NoError]
      /\ hops' = [hops EXCEPT ![r] = IF followed THEN @ + 1 ELSE 0]
      /\ IF early = Pending
         THEN /\ pc' = [pc EXCEPT ![r] = "fetching"]
              /\ result' = [result EXCEPT ![r] = Pending]
              /\ calls' = [calls EXCEPT ![r] = <<fetch>>]
         ELSE /\ pc' = [pc EXCEPT ![r] = "done"]
              /\ result' = [result EXCEPT ![r] = early]
              /\ calls' = [calls EXCEPT ![r] = <<>>]

\* the definition was never handed to formsService: formsStatusCallback is
\* called on it directly, as the unit tests do
Unvalidated == "unvalidated"

Serving == verdict \in { "ok", Unvalidated }

\* the pages the applicant opens by hand
NavPaths ==
  { <<"/", Slug>> \o Path("start"), <<"/", Slug>> \o Path("confirmation"),
    <<"/", Slug>> \o Path("summary"), <<"/", Slug>> \o Path("check"), BaseUrl }

\* the applicant opens a page: a new request passes through formsStatusCallback
Navigate(r, requestPath) ==
  /\ Serving
  /\ pc[r] \in { "idle", "done" }
  /\ Arrive(r, requestPath, FALSE)
  /\ UNCHANGED <<ruleVars, sessionVars, serverVars>>

\* the browser follows the redirect the previous request answered with
FollowRedirect(r) ==
  /\ Serving
  /\ pc[r] = "done"
  /\ result[r].kind = "redirect"
  /\ hops[r] < MaxHops
  /\ Arrive(r, result[r].url, TRUE)
  /\ UNCHANGED <<ruleVars, sessionVars, serverVars>>

\* handlePostSubmission from the answer of getApplicationStatus to the next
\* suspension point (the status write) or to its return
StatusFetched(r) ==
  /\ pc[r] = "fetching"
  /\ gas.kind = "status"
  /\ LET previousStatus == Get(context[r], "applicationStatus")
         grantId        == SlugOf(path[r])
         m              == mapStatusToUrl(previousStatus, gas.status, candidate.postSubmission)
         write          == persistStatus(m.rule.toGrantsStatus, previousStatus, grantId)
         failed         == handlePostSubmissionError(Error(NoStatus, m.error), path[r])
     IN  /\ gasStatus' = [gasStatus EXCEPT ![r] = gas.status]
         /\ ruleMatch' = [ruleMatch EXCEPT ![r] = m]
         /\ IF m.threw
            THEN /\ pc' = [pc EXCEPT ![r] = "done"]
                 /\ caught' = [caught EXCEPT ![r] = Error(NoStatus, m.error)]
                 /\ calls' = [calls EXCEPT ![r] = @ \o failed.logged]
                 /\ result' = [result EXCEPT ![r] = failed.result]
            ELSE IF write # <<>>
            THEN /\ pc' = [pc EXCEPT ![r] = "writing"]
                 /\ calls' = [calls EXCEPT ![r] = @ \o write]
                 /\ UNCHANGED <<result, caught>>
            ELSE /\ pc' = [pc EXCEPT ![r] = "done"]
                 /\ UNCHANGED <<calls, caught>>
                 /\ result' = [result EXCEPT ![r] =
                      postSubmissionOutcome(path[r], gas.status, m.rule, previousStatus)]
  /\ UNCHANGED <<ruleVars, sessionVars, path, context, hops, serverVars>>

\* getApplicationStatus rejects: not found, or any other failure
StatusFetchFailed(r) ==
  /\ pc[r] = "fetching"
  /\ gas.kind = "error"
  /\ LET failed == handlePostSubmissionError(Error(gas.status, "status fetch failed"), path[r])
     IN  /\ pc' = [pc EXCEPT ![r] = "done"]
         /\ caught' = [caught EXCEPT ![r] = Error(gas.status, "status fetch failed")]
         /\ calls' = [calls EXCEPT ![r] = @ \o failed.logged]
         /\ result' = [result EXCEPT ![r] = failed.result]
  /\ UNCHANGED <<ruleVars, sessionVars, path, context, gasStatus, ruleMatch, hops, serverVars>>

\* mutant: the store keeps a CLEARED status against later writes
AppliedUnlessCleared(call) ==
  IF Get(state, "applicationStatus") = "CLEARED" THEN state
  ELSE IF call.op = "setState" THEN setState(call.state)
  ELSE updateApplicationStatus(state, call.status)

\* the effect on the store of the write a request issued
Applied(call) ==
  IF call.op = "setState" THEN setState(call.state)
  ELSE updateApplicationStatus(state, call.status)

\* the status write resolves: the store changes and handlePostSubmission returns
StatusWritten(r) ==
  /\ pc[r] = "writing"
  /\ state' = Applied(calls[r][Len(calls[r])])
  /\ pc' = [pc EXCEPT ![r] = "done"]
  /\ result' = [result EXCEPT ![r] =
       postSubmissionOutcome(path[r], gasStatus[r], ruleMatch[r].rule, Get(context[r], "applicationStatus"))]
  /\ UNCHANGED <<ruleVars, grantCode, tasklistId, gas, path, context, gasStatus, ruleMatch, calls, caught, hops, serverVars>>

\* the status write rejects: the error is caught by formsStatusCallback
StatusWriteFailed(r, errStatus) ==
  /\ pc[r] = "writing"
  /\ LET failed == handlePostSubmissionError(Error(errStatus, "status write failed"), path[r])
     IN  /\ pc' = [pc EXCEPT ![r] = "done"]
         /\ caught' = [caught EXCEPT ![r] = Error(errStatus, "status write failed")]
         /\ calls' = [calls EXCEPT ![r] = @ \o failed.logged]
         /\ result' = [result EXCEPT ![r] = failed.result]
  /\ UNCHANGED <<ruleVars, sessionVars, path, context, gasStatus, ruleMatch, hops, serverVars>>

\* ------------------------------------------------------- the environment
Quiet == \A t \in Tabs : pc[t] \in { "idle", "done" }

\* the per-tab records describe the latest request of a tab for as long as
\* nothing outside the request changes; a change of GAS or of the session
\* state by another page drops the records of the completed requests and
\* ends every chain of followed redirects
ForgetDone ==
  LET Keep(t) == pc[t] # "done"
  IN  /\ pc' = [t \in Tabs |-> IF Keep(t) THEN pc[t] ELSE "idle"]
      /\ path' = [t \in Tabs |-> IF Keep(t) THEN path[t] ELSE <<>>]
      /\ context' = [t \in Tabs |-> IF Keep(t) THEN context[t] ELSE EmptyState]
      /\ gasStatus' = [t \in Tabs |-> IF Keep(t) THEN gasStatus[t] ELSE NoValue]
      /\ ruleMatch' = [t \in Tabs |-> IF Keep(t) THEN ruleMatch[t] ELSE NoRule]
      /\ result' = [t \in Tabs |-> IF Keep(t) THEN result[t] ELSE Pending]
      /\ calls' = [t \in Tabs |-> IF Keep(t) THEN calls[t] ELSE <<>>]
      /\ caught' = [t \in Tabs |-> IF Keep(t) THEN caught[t] ELSE NoError]
      /\ hops' = [t \in Tabs |-> 0]

GasAnswers ==
  { [kind |-> "status", status |-> st] :
      st \in { "RECEIVED", "AWAITING_AMENDMENTS", "APPLICATION_WITHDRAWN", "OFFER_SENT" } }
  \cup { [kind |-> "error", status |-> notFound], [kind |-> "error", status |-> NoStatus] }

\* GAS moves the application on, loses it, or goes down
GasChanges(answer) ==
  /\ Serving
  /\ answer # gas
  /\ gas' = answer
  /\ ForgetDone
  /\ UNCHANGED <<ruleVars, grantCode, tasklistId, state, serverVars>>

\* what the question pages may save
Answers ==
  { [question |-> "answer"], [applicant |-> "details"],
    [landParcels |-> {}], [landParcels |-> { "parcel" }] }

\* a question page saves an answer: a shallow merge into the session state
SaveAnswer(answer) ==
  /\ Serving
  /\ Quiet
  /\ state' = Spread(state, answer)
  /\ state' # state
  /\ ForgetDone
  /\ UNCHANGED <<ruleVars, grantCode, tasklistId, gas, serverVars>>

\* mutant: the submission writes a state of its three fields only
SubmitRewrites(valid, submissionStatus) ==
  /\ Serving
  /\ Quiet
  /\ state' = IF valid /\ submissionStatus = noContent
              THEN setState([applicationStatus |-> "SUBMITTED", submittedAt |-> "now", submittedBy |-> Crn])
              ELSE state
  /\ state' # state
  /\ ForgetDone
  /\ UNCHANGED <<ruleVars, grantCode, tasklistId, gas, serverVars>>

\* the submission page's POST handler: validation, the GAS submit, and on
\* status 204 the state write of handleSuccessfulSubmission
Submit(valid, submissionStatus) ==
  /\ Serving
  /\ Quiet
  /\ state' = IF valid /\ submissionStatus = noContent
              THEN setState(Spread(state, [applicationStatus |-> "SUBMITTED",
                                           submittedAt |-> "now", submittedBy |-> Crn]))
              ELSE state
  /\ state' # state
  /\ ForgetDone
  /\ UNCHANGED <<ruleVars, grantCode, tasklistId, gas, serverVars>>

\* --------------------------------------------------- the served definitions
NewRule(from, gasSt, to, toPath) ==
  [fromGrantsStatus |-> from, gasStatus |-> gasSt, toGrantsStatus |-> to, toPath |-> toPath]

\* mutant: the shared rules without the reopening on AWAITING_AMENDMENTS
StandardRulesNoReopening ==
  << NewRule(<<S("SUBMITTED"), S("REOPENED")>>, <<S("APPLICATION_WITHDRAWN")>>, "CLEARED", Path("start")),
     NewRule(<<S("REOPENED")>>, <<S("default")>>, "REOPENED", Path("summary")),
     NewRule(<<S("SUBMITTED")>>, <<S("OFFER_SENT"), S("OFFER_WITHDRAWN"), S("OFFER_ACCEPTED")>>,
             "SUBMITTED", BaseUrl),
     NewRule(<<S("SUBMITTED")>>, <<S("default")>>, "SUBMITTED", Path("confirmation")),
     NewRule(<<S("default")>>, <<S("default")>>, "SUBMITTED", Path("confirmation")) >>

\* the shared post-submission rules
StandardRules ==
  << NewRule(<<S("SUBMITTED"), S("REOPENED")>>, <<S("APPLICATION_WITHDRAWN")>>, "CLEARED", Path("start")),
     NewRule(<<S("SUBMITTED")>>, <<S("AWAITING_AMENDMENTS")>>, "REOPENED", Path("summary")),
     NewRule(<<S("REOPENED")>>, <<S("default")>>, "REOPENED", Path("summary")),
     NewRule(<<S("SUBMITTED")>>, <<S("OFFER_SENT"), S("OFFER_WITHDRAWN"), S("OFFER_ACCEPTED")>>,
             "SUBMITTED", BaseUrl),
     NewRule(<<S("SUBMITTED")>>, <<S("default")>>, "SUBMITTED", Path("confirmation")),
     NewRule(<<S("default")>>, <<S("default")>>, "SUBMITTED", Path("confirmation")) >>

\* a grant's own rules: a reopening that lands on the start page, a status of
\* the grant's own, and a fallback that points at the agreements service
CustomRules ==
  << NewRule(<<S("SUBMITTED")>>, <<S("AWAITING_AMENDMENTS")>>, "REOPENED", Path("start")),
     NewRule(<<S("SUBMITTED")>>, <<S("OFFER_SENT")>>, "OFFER_MADE", Path("summary")),
     NewRule(<<S("default")>>, <<S("default")>>, "SUBMITTED", BaseUrl) >>

\* a list with two default/default rules
TwoFallbackRules ==
  << NewRule(<<S("default")>>, <<S("default")>>, "SUBMITTED", Path("summary")),
     NewRule(<<S("default")>>, <<S("default")>>, "SUBMITTED", Path("confirmation")) >>

\* a list without the fallback rule
NoFallbackRules ==
  << NewRule(<<S("SUBMITTED")>>, <<S("RECEIVED")>>, "SUBMITTED", Path("confirmation")) >>

\* a definition without post-submission rules
EmptyRules == <<>>

ServedPostSubmission == { StandardRules, CustomRules, TwoFallbackRules, NoFallbackRules, EmptyRules }

\* the resume page: a check page, or the start page itself
ServedPreSubmission == { <<[toPath |-> Path("check")]>>, <<[toPath |-> StartPath]>> }

\* (grantCode, tasklistId) of the served definitions
ServedMetadata ==
  { [grantCode |-> "grant-a-code", tasklistId |-> NoValue],
    [grantCode |-> "grant-a-code", tasklistId |-> "tasklist"],
    [grantCode |-> NoValue, tasklistId |-> NoValue] }

\* ------------------------------------------------------------- the server
\* What createServer sets up around the forms plugin: the session key
\* generator with its module-level cache, session hydration from the Grants
\* UI Backend, and the cookie validation of the auth plugin.

\* JavaScript's null, where a string is expected
Null == "null"

\* null where a session key is expected: a key is a sequence of pieces and
\* is never empty
NullKey == <<>>

\* a value that is null or a parsed JSON object
NullValue == [null |-> TRUE]

Json(object) == [null |-> FALSE, object |-> object]

\* the business identities the SBI selector offers
Sbis == { "106284736", "107183280" }

\* the session ids of the cookies the browser may present
SessionIds == { "session-1", "session-2" }

\* no entry in server.app.cache
NoSession == [found |-> FALSE]

\* a definition before formsService has laid the rules into it
NoRules == [preSubmission |-> <<>>, postSubmission |-> <<>>]

NoHydration == [ran |-> FALSE]

NoValidation == [ran |-> FALSE]

\* the server before createServer has done anything
ServerIdle ==
  /\ shared = EmptyState
  /\ own = EmptyState
  /\ sbiSelectorEnabled = FALSE
  /\ sbi = "106284736"
  /\ cachedKey = NullKey
  /\ cachedSbi = Null
  /\ backend = [kind |-> "status", status |-> notFound]
  /\ hydration = NoHydration
  /\ defraIdEnabled = FALSE
  /\ refreshEnabled = FALSE
  /\ cache = [id \in SessionIds |-> NoSession]
  /\ validated = NoValidation

TabsIdle ==
  /\ pc = [t \in Tabs |-> "idle"]
  /\ path = [t \in Tabs |-> <<>>]
  /\ context = [t \in Tabs |-> EmptyState]
  /\ gasStatus = [t \in Tabs |-> NoValue]
  /\ ruleMatch = [t \in Tabs |-> NoRule]
  /\ result = [t \in Tabs |-> Pending]
  /\ calls = [t \in Tabs |-> <<>>]
  /\ caught = [t \in Tabs |-> NoError]
  /\ hops = [t \in Tabs |-> 0]

Init ==
  /\ candidate \in { [preSubmission |-> pre, postSubmission |-> post] :
                       pre \in ServedPreSubmission, post \in ServedPostSubmission }
  /\ fromArg = "default"
  /\ gasArg = "default"
  /\ verdict = NoValue
  /\ matched = [ran |-> FALSE]
  /\ \E md \in ServedMetadata : grantCode = md.grantCode /\ tasklistId = md.tasklistId
  /\ state = [k \in { "$$__referenceNumber" } |-> ReferenceNumber]
  /\ gas \in GasAnswers
  /\ TabsIdle
  /\ ServerIdle

\* formsService: the definition is validated at startup; requests are served
\* only if validation passed
Validate ==
  /\ verdict = NoValue
  /\ verdict' = validateGrantRedirectRules(candidate)
  /\ UNCHANGED <<candidate, fromArg, gasArg, matched, sessionVars, tabVars, serverVars>>

\* the applicant's one browser tab
OneTab == { "t1" }

Next ==
  \/ Validate
  \/ \E r \in OneTab, p \in NavPaths : Navigate(r, p)
  \/ \E r \in OneTab : FollowRedirect(r)
  \/ \E r \in OneTab : StatusFetched(r)
  \/ \E r \in OneTab : StatusFetchFailed(r)
  \/ \E r \in OneTab : StatusWritten(r)
  \/ \E r \in OneTab, e \in { notFound, NoStatus } : StatusWriteFailed(r, e)
  \/ \E a \in GasAnswers : GasChanges(a)
  \/ \E a \in Answers : SaveAnswer(a)
  \/ \E v \in BOOLEAN, st \in { noContent, badRequest } : Submit(v, st)

Spec == Init /\ [][Next]_vars

\* formsStatusCallback called directly on a definition that was never
\* validated: the session as above, without the startup step
InitDirect ==
  /\ candidate \in { [preSubmission |-> pre, postSubmission |-> post] :
                       pre \in ServedPreSubmission, post \in ServedPostSubmission }
  /\ fromArg = "default"
  /\ gasArg = "default"
  /\ verdict = Unvalidated
  /\ matched = [ran |-> FALSE]
  /\ \E md \in ServedMetadata : grantCode = md.grantCode /\ tasklistId = md.tasklistId
  /\ state = [k \in { "$$__referenceNumber" } |-> ReferenceNumber]
  /\ gas \in GasAnswers
  /\ TabsIdle
  /\ ServerIdle

NextDirect ==
  \/ \E r \in OneTab, p \in NavPaths : Navigate(r, p)
  \/ \E r \in OneTab : FollowRedirect(r)
  \/ \E r \in OneTab : StatusFetched(r)
  \/ \E r \in OneTab : StatusFetchFailed(r)
  \/ \E r \in OneTab : StatusWritten(r)
  \/ \E r \in OneTab, e \in { notFound, NoStatus } : StatusWriteFailed(r, e)
  \/ \E a \in GasAnswers : GasChanges(a)
  \/ \E a \in Answers : SaveAnswer(a)
  \/ \E v \in BOOLEAN, st \in { noContent, badRequest } : Submit(v, st)

SpecDirect == InitDirect /\ [][NextDirect]_vars

\* ---------------------------------------------------------- duplicate tabs
\* The same session with two browser tabs whose requests interleave at the
\* suspension points, and the submission page's POST handler running behind
\* formsStatusCallback.

\* the submission page of the journey
SubmissionPath == <<"/", Slug>> \o Path("submit-your-application")

\* getStatusPath: the confirmation page of the grant
ConfirmationPath == <<"/", Slug>> \o Path("confirmation")

\* the pages the two tabs request
TabPaths == { <<"/", Slug>> \o StartPath, ConfirmationPath, SubmissionPath }

\* h.view(name, ...)
View(name) == [kind |-> "view", name |-> name]

\* the calls of the POST handler
ValidateApplicationCall(reference, outcome) ==
  [op |-> "validateApplication", applicationId |-> reference, outcome |-> outcome]
SubmitGrantApplicationCall(reference) == [op |-> "submitGrantApplication", clientRef |-> reference]
SubmittedStateCall(newState) == [op |-> "handleSuccessfulSubmission", state |-> newState]

\* the state handleSuccessfulSubmission writes
SubmittedState(currentState) ==
  Spread(currentState, [applicationStatus |-> "SUBMITTED", submittedAt |-> "now", submittedBy |-> Crn])

\* what validateApplication does: resolves valid or invalid, or rejects
ValidationOutcomes == { "valid", "invalid", "rejected" }

\* what submitGrantApplication does: resolves with a status, or rejects
SubmitOutcomes ==
  { [kind |-> "status", status |-> noContent], [kind |-> "status", status |-> badRequest],
    [kind |-> "error", status |-> NoStatus] }

\* mutant: the application is sent to GAS whatever validation said
SubmissionSentUnvalidated(r, validation, submission) ==
  /\ Serving
  /\ pc[r] = "done"
  /\ path[r] = SubmissionPath
  /\ result[r] = Continue
  /\ LET sent == <<ValidateApplicationCall(ReferenceNumber, validation),
                   SubmitGrantApplicationCall(toLowerCase(ReferenceNumber))>>
     IN  IF submission.kind = "status" /\ submission.status = noContent
         THEN /\ pc' = [pc EXCEPT ![r] = "saving"]
              /\ result' = [result EXCEPT ![r] = Pending]
              /\ calls' = [calls EXCEPT ![r] = @ \o sent \o <<SubmittedStateCall(SubmittedState(state))>>]
         ELSE /\ pc' = pc
              /\ result' = [result EXCEPT ![r] =
                   IF submission.kind = "status" THEN Redirect(ConfirmationPath) ELSE View("submission-error")]
              /\ calls' = [calls EXCEPT ![r] = @ \o sent]
  /\ UNCHANGED <<ruleVars, sessionVars, path, context, gasStatus, ruleMatch, caught, hops, serverVars>>

\* makePostRouteHandler behind a callback that continued: validation, the GAS
\* submit and, on status 204, the state read of handleSuccessfulSubmission;
\* a rejection of either call is caught and answered with the error view
SubmissionSent(r, validation, submission) ==
  /\ Serving
  /\ pc[r] = "done"
  /\ path[r] = SubmissionPath
  /\ result[r] = Continue
  /\ LET sent == <<ValidateApplicationCall(ReferenceNumber, validation)>>
                  \o (IF validation = "valid"
                      THEN <<SubmitGrantApplicationCall(toLowerCase(ReferenceNumber))>> ELSE <<>>)
     IN  IF validation = "valid" /\ submission.kind = "status" /\ submission.status = noContent
         THEN /\ pc' = [pc EXCEPT ![r] = "saving"]
              /\ result' = [result EXCEPT ![r] = Pending]
              /\ calls' = [calls EXCEPT ![r] = @ \o sent \o <<SubmittedStateCall(SubmittedState(state))>>]
         ELSE /\ pc' = pc
              /\ result' = [result EXCEPT ![r] =
                   IF validation = "valid" /\ submission.kind = "status"
                   THEN Redirect(ConfirmationPath) ELSE View("submission-error")]
              /\ calls' = [calls EXCEPT ![r] = @ \o sent]
  /\ UNCHANGED <<ruleVars, sessionVars, path, context, gasStatus, ruleMatch, caught, hops, serverVars>>

\* the setState of handleSuccessfulSubmission resolves and the handler
\* redirects to the confirmation page
SubmissionSaved(r) ==
  /\ pc[r] = "saving"
  /\ state' = setState(calls[r][Len(calls[r])].state)
  /\ pc' = [pc EXCEPT ![r] = "done"]
  /\ result' = [result EXCEPT ![r] = Redirect(ConfirmationPath)]
  /\ UNCHANGED <<ruleVars, grantCode, tasklistId, gas, path, context, gasStatus, ruleMatch, calls, caught, hops, serverVars>>

\* the setState of handleSuccessfulSubmission rejects: the handler catches
\* the error and answers with the error view
SubmissionSaveFailed(r) ==
  /\ pc[r] = "saving"
  /\ pc' = [pc EXCEPT ![r] = "done"]
  /\ result' = [result EXCEPT ![r] = View("submission-error")]
  /\ UNCHANGED <<ruleVars, sessionVars, path, context, gasStatus, ruleMatch, calls, caught, hops, serverVars>>

\* a served grant with the shared rules, a fresh session, both tabs idle
InitTabs ==
  /\ candidate = [preSubmission |-> <<[toPath |-> Path("check")]>>, postSubmission |-> StandardRules]
  /\ fromArg = "default"
  /\ gasArg = "default"
  /\ verdict = validateGrantRedirectRules(candidate)
  /\ matched = [ran |-> FALSE]
  /\ grantCode = "grant-a-code"
  /\ tasklistId = NoValue
  /\ state = [k \in { "$$__referenceNumber" } |-> ReferenceNumber]
  /\ gas \in GasAnswers
  /\ TabsIdle
  /\ ServerIdle

NextTabs ==
  \/ \E r \in Tabs, p \in TabPaths : Navigate(r, p)
  \/ \E r \in Tabs : StatusFetched(r)
  \/ \E r \in Tabs : StatusFetchFailed(r)
  \/ \E r \in Tabs : StatusWritten(r)
  \/ \E r \in Tabs, e \in { notFound, NoStatus } : StatusWriteFailed(r, e)
  \/ \E r \in Tabs, v \in ValidationOutcomes, o \in SubmitOutcomes : SubmissionSent(r, v, o)
  \/ \E r \in Tabs : SubmissionSaved(r)
  \/ \E r \in Tabs : SubmissionSaveFailed(r)
  \/ \E a \in GasAnswers : GasChanges(a)

SpecTabs == InitTabs /\ [][NextTabs]_vars

\* ------------------------------------------------------- a GAS that is silent
\* The session of one tab with a Grant Status Client whose call may stay
\* unanswered until its timeout ends it.

\* GAS accepts the connection and never answers
Silent == [kind |-> "silent", status |-> NoStatus]

GasAnswersLive == GasAnswers \cup { Silent }

\* the error the Grant Status Client rejects with when its timeout ends the call
TimeoutError == Error(NoStatus, "status fetch timed out")

\* the timeout of the Grant Status Client ends an unanswered call: the
\* rejection is caught by formsStatusCallback like any other failure
StatusFetchTimedOut(r) ==
  /\ pc[r] = "fetching"
  /\ gas = Silent
  /\ LET failed == handlePostSubmissionError(TimeoutError, path[r])
     IN  /\ pc' = [pc EXCEPT ![r] = "done"]
         /\ caught' = [caught EXCEPT ![r] = TimeoutError]
         /\ calls' = [calls EXCEPT ![r] = @ \o failed.logged]
         /\ result' = [result EXCEPT ![r] = failed.result]
  /\ UNCHANGED <<ruleVars, sessionVars, path, context, gasStatus, ruleMatch, hops, serverVars>>

\* the awaited getApplicationStatus settles
FetchEnds(r) == StatusFetched(r) \/ StatusFetchFailed(r) \/ StatusFetchTimedOut(r)

\* the awaited status write settles
WriteEnds(r) == StatusWritten(r) \/ \E e \in { notFound, NoStatus } : StatusWriteFailed(r, e)

\* a served grant, a fresh session, the tab idle
InitLive ==
  /\ candidate \in { [preSubmission |-> <<[toPath |-> Path("check")]>>, postSubmission |-> post] :
                       post \in { StandardRules, CustomRules } }
  /\ fromArg = "default"
  /\ gasArg = "default"
  /\ verdict = validateGrantRedirectRules(candidate)
  /\ matched = [ran |-> FALSE]
  /\ grantCode = "grant-a-code"
  /\ tasklistId = NoValue
  /\ state = [k \in { "$$__referenceNumber" } |-> ReferenceNumber]
  /\ gas \in GasAnswersLive
  /\ TabsIdle
  /\ ServerIdle

NextLive ==
  \/ \E r \in OneTab, p \in NavPaths : Navigate(r, p)
  \/ \E r \in OneTab : FollowRedirect(r)
  \/ \E r \in OneTab : FetchEnds(r)
  \/ \E r \in OneTab : WriteEnds(r)
  \/ \E a \in GasAnswersLive : GasChanges(a)
  \/ \E v \in BOOLEAN, st \in { noContent, badRequest } : Submit(v, st)

\* an awaited promise settles: the event loop runs the continuation of a
\* request whose call has an outcome
SpecLive ==
  /\ InitLive
  /\ [][NextLive]_vars
  /\ \A r \in OneTab : WF_vars(FetchEnds(r)) /\ WF_vars(WriteEnds(r))

\* ------------------------------------------------------ session hydration
internalServerError == 500

\* what the backend does with GET /state: a saved state, an empty body, a
\* not-found or another error status, a connection that fails, or a body
\* that is no JSON; or no backend is configured at all
SavedState == [k \in { "$$__referenceNumber", "question" } |->
                 IF k = "question" THEN "answer" ELSE ReferenceNumber]

BackendAnswers ==
  { [kind |-> "json", value |-> Json(SavedState)], [kind |-> "json", value |-> NullValue],
    [kind |-> "status", status |-> notFound], [kind |-> "status", status |-> internalServerError],
    [kind |-> "network", status |-> NoStatus], [kind |-> "badJson", status |-> NoStatus],
    [kind |-> "unconfigured", status |-> NoStatus] }

\* getIdentity: the identity triple of the selected SBI, or the placeholder
getIdentity ==
  IF sbiSelectorEnabled
  THEN [userId |-> <<"user_", sbi>>, businessId |-> <<"business_", sbi>>, grantId |-> <<"grant_", sbi>>]
  ELSE [userId |-> <<"placeholder-user-id">>, businessId |-> <<"placeholder-business-id">>,
        grantId |-> <<"placeholder-grant-id">>]

\* `${userId}:${businessId}:${grantId}`
KeyOf(identity) == identity.userId \o <<":">> \o identity.businessId \o <<":">> \o identity.grantId

Returned(value, logged) == [threw |-> FALSE, value |-> value, error |-> "", logged |-> logged]
Thrown(error, logged) == [threw |-> TRUE, value |-> NullValue, error |-> error, logged |-> logged]

\* fetchSavedStateFromApi: what it returns or throws, and what it logs
fetchSavedStateFromApi(answer) ==
  LET fetching == [level |-> "info", message |-> "Fetching state from backend for identity"]
      failed   == [level |-> "error", message |-> "Failed to fetch saved state from API"]
  IN  IF answer.kind = "unconfigured"
      THEN Returned(NullValue, <<[level |-> "warn", message |-> "Backend not configured - skipping API call"]>>)
      ELSE IF answer.kind = "network" THEN Thrown("fetch failed", <<fetching, failed>>)
      ELSE IF answer.kind = "status"
      THEN IF answer.status = notFound THEN Returned(NullValue, <<fetching>>)
           ELSE Thrown("Failed to fetch saved state", <<fetching, failed>>)
      ELSE IF answer.kind = "badJson" THEN Thrown("Unexpected token", <<fetching, failed>>)
      ELSE Returned(answer.value, <<fetching>>)

\* performSessionHydrationInternal
performSessionHydrationInternal(forSbi, answer) ==
  LET starting == [level |-> "info", message |-> "Starting session hydration"]
      fetched  == fetchSavedStateFromApi(answer)
  IN  IF fetched.threw
      THEN [ran |-> TRUE, sbi |-> forSbi, threw |-> TRUE, value |-> NullValue, error |-> fetched.error,
            logged |-> <<starting>> \o fetched.logged
                       \o <<[level |-> "error", message |-> "session hydration failed"]>>]
      ELSE [ran |-> TRUE, sbi |-> forSbi, threw |-> FALSE, value |-> fetched.value, error |-> "",
            logged |-> <<starting>> \o fetched.logged
                       \o <<[level |-> "info", message |-> "session hydration completed"]>>]

\* performSessionHydration for the selected SBI
HydrateSession ==
  /\ hydration' = performSessionHydrationInternal(sbi, backend)
  /\ hydration' # hydration
  /\ UNCHANGED <<ruleVars, sessionVars, tabVars, formVars, keyVars, backend, cookieVars>>

\* the backend comes up, goes down, or its record of the session changes
BackendChanges(answer) ==
  /\ backend.kind # "unconfigured"
  /\ answer.kind # "unconfigured"
  /\ answer # backend
  /\ backend' = answer
  /\ hydration' = NoHydration
  /\ UNCHANGED <<ruleVars, sessionVars, tabVars, formVars, keyVars, cookieVars>>

\* ---------------------------------------------------------- the session key
\* mutant: the key is computed once and kept whatever the SBI becomes
generateKeyCachedForever ==
  IF cachedKey = NullKey
  THEN [key |-> KeyOf(getIdentity), cachedKey |-> KeyOf(getIdentity), cachedSbi |-> sbi]
  ELSE [key |-> cachedKey, cachedKey |-> cachedKey, cachedSbi |-> cachedSbi]

\* generateKey: the key it returns, and the module-level cache it leaves
generateKey ==
  IF cachedKey = NullKey \/ cachedSbi # sbi
  THEN [key |-> KeyOf(getIdentity), cachedKey |-> KeyOf(getIdentity), cachedSbi |-> sbi]
  ELSE [key |-> cachedKey, cachedKey |-> cachedKey, cachedSbi |-> cachedSbi]

\* the forms plugin asks for the session key of a request
GenerateKey ==
  /\ cachedKey' = generateKey.cachedKey
  /\ cachedSbi' = generateKey.cachedSbi
  /\ UNCHANGED <<ruleVars, sessionVars, tabVars, formVars, sbiSelectorEnabled, sbi, hydrationVars, cookieVars>>

\* clearCachedKey
ClearCachedKey ==
  /\ cachedKey # NullKey
  /\ cachedKey' = NullKey
  /\ cachedSbi' = Null
  /\ UNCHANGED <<ruleVars, sessionVars, tabVars, formVars, sbiSelectorEnabled, sbi, hydrationVars, cookieVars>>

\* another business is selected: sbiStore holds a new SBI
SbiChanges(newSbi) ==
  /\ newSbi # sbi
  /\ sbi' = newSbi
  /\ UNCHANGED <<ruleVars, sessionVars, tabVars, formVars, sbiSelectorEnabled, cachedKey, cachedSbi,
                 hydrationVars, cookieVars>>

\* ------------------------------------------------------ loading the forms
\* formsService at startup: the shared redirect rules are loaded, laid under
\* the rules of each form's own definition, and the result is validated.

\* the token the shared rules file writes for the agreements service
AgreementsPlaceholder == <<"__AGREEMENTS_BASE_URL__">>

\* the standard rules as the shared rules file spells them
SharedPostSubmission ==
  [i \in DOMAIN StandardRules |->
     IF StandardRules[i].toPath = BaseUrl
     THEN [StandardRules[i] EXCEPT !.toPath = AgreementsPlaceholder]
     ELSE StandardRules[i]]

\* parsed.sharedRedirectRules ?? {}: both lists, the post-submission list
\* alone, or nothing
SharedFiles ==
  { [k \in { "preSubmission", "postSubmission" } |->
       IF k = "preSubmission" THEN <<[toPath |-> Path("check")]>> ELSE SharedPostSubmission],
    [k \in { "postSubmission" } |-> SharedPostSubmission],
    EmptyState }

\* metadata.grantRedirectRules of a form's own definition: each list is
\* declared or not
OwnPreSubmission == { <<>>, <<[toPath |-> StartPath]>>, <<[toPath |-> Path("summary")]>> }

OwnPostSubmission == { <<>>, CustomRules, TwoFallbackRules, NoFallbackRules }

OwnRules ==
  { EmptyState }
    \cup { [k \in { "preSubmission" } |-> pre] : pre \in OwnPreSubmission }
    \cup { [k \in { "postSubmission" } |-> post] : post \in OwnPostSubmission }
    \cup { [k \in { "preSubmission", "postSubmission" } |-> IF k = "preSubmission" THEN pre ELSE post] :
             pre \in OwnPreSubmission, post \in OwnPostSubmission }

\* loadSharedRedirectRules: the placeholder of the shared post-submission
\* rules becomes the agreements base URL
loadSharedRedirectRules(parsed) ==
  [k \in DOMAIN parsed |->
     IF k = "postSubmission"
     THEN [i \in DOMAIN parsed[k] |->
             IF parsed[k][i].toPath = AgreementsPlaceholder
             THEN [parsed[k][i] EXCEPT !.toPath = BaseUrl]
             ELSE parsed[k][i]]
     ELSE parsed[k]]

\* mutant: a list of the form's own is appended to the shared list of its name
mergeRedirectRulesAppending(sharedRules, ownRules) ==
  [k \in DOMAIN sharedRules \cup DOMAIN ownRules |->
     IF k \in DOMAIN sharedRules /\ k \in DOMAIN ownRules THEN sharedRules[k] \o ownRules[k]
     ELSE IF k \in DOMAIN ownRules THEN ownRules[k]
     ELSE sharedRules[k]]

\* { ...sharedRules, ...definition.metadata.grantRedirectRules }
mergeRedirectRules(sharedRules, ownRules) == Spread(sharedRules, ownRules)

\* redirectRules.preSubmission ?? [] and redirectRules.postSubmission ?? []
ListsOf(redirectRules) ==
  [preSubmission  |-> IF HasKey(redirectRules, "preSubmission") THEN redirectRules["preSubmission"] ELSE <<>>,
   postSubmission |-> IF HasKey(redirectRules, "postSubmission") THEN redirectRules["postSubmission"] ELSE <<>>]

\* formsService for one form: merge, then validate what was merged
LoadForm ==
  /\ verdict = NoValue
  /\ candidate' = ListsOf(mergeRedirectRules(loadSharedRedirectRules(shared), own))
  /\ verdict' = validateGrantRedirectRules(candidate')
  /\ UNCHANGED <<fromArg, gasArg, matched, sessionVars, tabVars, formVars, keyVars, hydrationVars, cookieVars>>

InitForms ==
  /\ candidate = NoRules
  /\ fromArg = "default"
  /\ gasArg = "default"
  /\ verdict = NoValue
  /\ matched = [ran |-> FALSE]
  /\ grantCode = NoValue
  /\ tasklistId = NoValue
  /\ state = EmptyState
  /\ gas = [kind |-> "error", status |-> notFound]
  /\ TabsIdle
  /\ shared \in SharedFiles
  /\ own \in OwnRules
  /\ sbiSelectorEnabled = FALSE
  /\ sbi = "106284736"
  /\ cachedKey = NullKey
  /\ cachedSbi = Null
  /\ backend = [kind |-> "status", status |-> notFound]
  /\ hydration = NoHydration
  /\ defraIdEnabled = FALSE
  /\ refreshEnabled = FALSE
  /\ cache = [id \in SessionIds |-> NoSession]
  /\ validated = NoValidation

NextForms == LoadForm

SpecForms == InitForms /\ [][NextForms]_vars

\* -------------------------------------------------------- the server's runs
InitServer ==
  /\ candidate = NoRules
  /\ fromArg = "default"
  /\ gasArg = "default"
  /\ verdict = NoValue
  /\ matched = [ran |-> FALSE]
  /\ grantCode = NoValue
  /\ tasklistId = NoValue
  /\ state = EmptyState
  /\ gas = [kind |-> "error", status |-> notFound]
  /\ TabsIdle
  /\ shared = EmptyState
  /\ own = EmptyState
  /\ sbiSelectorEnabled \in BOOLEAN
  /\ sbi \in Sbis
  /\ cachedKey = NullKey
  /\ cachedSbi = Null
  /\ backend \in BackendAnswers
  /\ hydration = NoHydration
  /\ defraIdEnabled = FALSE
  /\ refreshEnabled = FALSE
  /\ cache = [id \in SessionIds |-> NoSession]
  /\ validated = NoValidation

NextServer ==
  \/ HydrateSession
  \/ \E answer \in BackendAnswers : BackendChanges(answer)
  \/ GenerateKey
  \/ ClearCachedKey
  \/ \E newSbi \in Sbis : SbiChanges(newSbi)

SpecServer == InitServer /\ [][NextServer]_vars

\* ------------------------------------------------------- cookie validation
\* A user session as server.app.cache holds it. token is "" when the session
\* was created without a Defra ID token; expired says whether decoding the
\* token and verifying its time would throw now.
Session(token, expired, refreshToken) ==
  [found |-> TRUE, token |-> token, expired |-> expired, refreshToken |-> refreshToken]

\* what refreshTokens and the cache.set after it may do: new tokens that are
\* stored, new tokens whose cache.set rejects, or a refresh that rejects
RefreshAnswers ==
  { [kind |-> k, token |-> t.token, refreshToken |-> t.refreshToken] :
      k \in { "stored", "notStored" },
      t \in { [token |-> "access-1", refreshToken |-> "refresh-1"],
              [token |-> "access-2", refreshToken |-> "refresh-2"] } }
    \cup { [kind |-> "rejected", token |-> "", refreshToken |-> ""] }

\* mutant: a refresh that fails does not end the validation
validateDespiteFailedRefresh(userSession, answer) ==
  IF ~userSession.found
  THEN [isValid |-> FALSE, refresh |-> "none", credentials |-> NoSession]
  ELSE IF defraIdEnabled /\ userSession.token # "" /\ userSession.expired
  THEN IF ~refreshEnabled
       THEN [isValid |-> FALSE, refresh |-> "none", credentials |-> NoSession]
       ELSE IF answer.kind = "stored"
       THEN [isValid |-> TRUE, refresh |-> "stored",
             credentials |-> Session(answer.token, FALSE, answer.refreshToken)]
       ELSE [isValid |-> TRUE, refresh |-> answer.kind, credentials |-> userSession]
  ELSE [isValid |-> TRUE, refresh |-> "none", credentials |-> userSession]

\* validate: the outcome for the session found under the id; refresh says
\* what the attempted token refresh did, "none" when none was attempted
validate(userSession, answer) ==
  IF ~userSession.found
  THEN [isValid |-> FALSE, refresh |-> "none", credentials |-> NoSession]
  ELSE IF defraIdEnabled /\ userSession.token # "" /\ userSession.expired
  THEN IF ~refreshEnabled
       THEN [isValid |-> FALSE, refresh |-> "none", credentials |-> NoSession]
       ELSE IF answer.kind = "stored"
       THEN [isValid |-> TRUE, refresh |-> "stored",
             credentials |-> Session(answer.token, FALSE, answer.refreshToken)]
       ELSE [isValid |-> FALSE, refresh |-> answer.kind, credentials |-> NoSession]
  ELSE [isValid |-> TRUE, refresh |-> "none", credentials |-> userSession]

\* a request arrives with the cookie of session id
ValidateCookie(id, answer) ==
  LET outcome == validate(cache[id], answer)
  IN  /\ validated' = [ran |-> TRUE, sessionId |-> id, before |-> cache[id],
                        isValid |-> outcome.isValid, refresh |-> outcome.refresh,
                        credentials |-> outcome.credentials]
      /\ validated' # validated
      /\ cache' = IF outcome.refresh = "stored"
                  THEN [cache EXCEPT ![id] = outcome.credentials]
                  ELSE cache
      /\ UNCHANGED <<ruleVars, sessionVars, tabVars, formVars, keyVars, hydrationVars,
                     defraIdEnabled, refreshEnabled>>

\* sign-in stores a new user session under the id
SignIn(id, token) ==
  /\ ~cache[id].found
  /\ cache' = [cache EXCEPT ![id] = Session(token, FALSE, IF token = "" THEN "" ELSE "refresh-1")]
  /\ validated' = NoValidation
  /\ UNCHANGED <<ruleVars, sessionVars, tabVars, formVars, keyVars, hydrationVars,
                 defraIdEnabled, refreshEnabled>>

\* time passes: the token of a session expires
TokenExpires(id) ==
  /\ cache[id].found
  /\ cache[id].token # ""
  /\ ~cache[id].expired
  /\ cache' = [cache EXCEPT ![id].expired = TRUE]
  /\ validated' = NoValidation
  /\ UNCHANGED <<ruleVars, sessionVars, tabVars, formVars, keyVars, hydrationVars,
                 defraIdEnabled, refreshEnabled>>

\* sign-out, or the cache entry reaches its time to live
SessionDropped(id) ==
  /\ cache[id].found
  /\ cache' = [cache EXCEPT ![id] = NoSession]
  /\ validated' = NoValidation
  /\ UNCHANGED <<ruleVars, sessionVars, tabVars, formVars, keyVars, hydrationVars,
                 defraIdEnabled, refreshEnabled>>

InitAuth ==
  /\ candidate = NoRules
  /\ fromArg = "default"
  /\ gasArg = "default"
  /\ verdict = NoValue
  /\ matched = [ran |-> FALSE]
  /\ grantCode = NoValue
  /\ tasklistId = NoValue
  /\ state = EmptyState
  /\ gas = [kind |-> "error", status |-> notFound]
  /\ TabsIdle
  /\ shared = EmptyState
  /\ own = EmptyState
  /\ sbiSelectorEnabled = FALSE
  /\ sbi = "106284736"
  /\ cachedKey = NullKey
  /\ cachedSbi = Null
  /\ backend = [kind |-> "status", status |-> notFound]
  /\ hydration = NoHydration
  /\ defraIdEnabled \in BOOLEAN
  /\ refreshEnabled \in BOOLEAN
  /\ cache = [id \in SessionIds |-> NoSession]
  /\ validated = NoValidation

NextAuth ==
  \/ \E id \in SessionIds, answer \in RefreshAnswers : ValidateCookie(id, answer)
  \/ \E id \in SessionIds, token \in { "", "access-1" } : SignIn(id, token)
  \/ \E id \in SessionIds : TokenExpires(id)
  \/ \E id \in SessionIds : SessionDropped(id)

SpecAuth == InitAuth /\ [][NextAuth]_vars

InitRules ==
  /\ candidate \in { [preSubmission |-> pre, postSubmission |-> post] :
                       pre \in CandidatePreSubmission, post \in SeqsUpTo(CandidateRules, MaxRules) }
  /\ fromArg \in FromArgs
  /\ gasArg \in GasArgs
  /\ verdict = NoValue
  /\ matched = [ran |-> FALSE]
  /\ grantCode = NoValue
  /\ tasklistId = NoValue
  /\ state = EmptyState
  /\ gas = [kind |-> "error", status |-> notFound]
  /\ TabsIdle
  /\ ServerIdle

\* one call of mapStatusToUrl on the candidate's post-submission list
Match ==
  /\ ~matched.ran
  /\ matched' = [ran |-> TRUE, out |-> mapStatusToUrl(fromArg, gasArg, candidate.postSubmission)]
  /\ UNCHANGED <<candidate, fromArg, gasArg, verdict, sessionVars, tabVars, serverVars>>

NextRules == Validate \/ Match

SpecRules == InitRules /\ [][NextRules]_vars

\* ---------------------------------------------------- the served rule tables
\* mapStatusToUrl on the rule tables the service serves, for every status GAS
\* may report, next to the fixed lookup table the rule tables replaced.

\* the statuses of GAS: the ones the old table names, one it does not name,
\* and the word 'default'
GasStatuses ==
  { "RECEIVED", "AWAITING_AMENDMENTS", "APPLICATION_WITHDRAWN", "OFFER_SENT",
    "OFFER_WITHDRAWN", "OFFER_ACCEPTED", "IN_REVIEW", "default" }

\* gasToGrantsUiStatus
gasToGrantsUiStatus ==
  [g \in { "RECEIVED", "AWAITING_AMENDMENTS", "APPLICATION_WITHDRAWN", "OFFER_SENT",
           "OFFER_WITHDRAWN", "OFFER_ACCEPTED" } |->
     IF g = "AWAITING_AMENDMENTS" THEN "REOPENED"
     ELSE IF g = "APPLICATION_WITHDRAWN" THEN "CLEARED"
     ELSE "SUBMITTED"]

\* getNewStatus of the fixed-table version
getNewStatus(gasSt, previousStatus) ==
  IF gasSt = "AWAITING_AMENDMENTS" /\ previousStatus = "SUBMITTED" THEN "REOPENED"
  ELSE IF gasSt \in DOMAIN gasToGrantsUiStatus THEN gasToGrantsUiStatus[gasSt]
  ELSE "SUBMITTED"

InitTable ==
  /\ candidate \in { [preSubmission |-> pre, postSubmission |-> post] :
                       pre \in ServedPreSubmission, post \in ServedPostSubmission }
  /\ fromArg \in FromArgs
  /\ gasArg \in GasStatuses
  /\ verdict = NoValue
  /\ matched = [ran |-> FALSE]
  /\ grantCode = NoValue
  /\ tasklistId = NoValue
  /\ state = EmptyState
  /\ gas = [kind |-> "error", status |-> notFound]
  /\ TabsIdle
  /\ ServerIdle

SpecTable == InitTable /\ [][NextRules]_vars

\* ------------------------------------------------------- claims on rule lists
PostRules == candidate.postSubmission

\* the first index of the list whose rule satisfies Test, 0 when there is none
FirstSuch(rules, Test(_)) ==
  IF \E i \in 1..Len(rules) : Test(rules[i])
  THEN CHOOSE i \in 1..Len(rules) : Test(rules[i]) /\ \A j \in 1..(i - 1) : ~Test(rules[j])
  ELSE 0

\* C1: on a rule list that validateGrantRedirectRules accepted, mapStatusToUrl
\* returns a rule for every (fromStatus, gasStatus) pair and never throws.
C1_Totality ==
  (verdict = "ok" /\ matched.ran) => ~matched.out.threw

\* C1 witness: an accepted list matched against a GAS status no rule names
C1_Witness ==
  /\ verdict = "ok"
  /\ matched.ran
  /\ ~matched.out.threw
  /\ gasArg = "RECEIVED"
  /\ fromArg = "CLEARED"

\* C2: the rule returned is the earliest declared rule that matches the pair:
\* no rule before it matches, and it matches.
C2_FirstMatchWins ==
  (matched.ran /\ ~matched.out.threw) =>
    /\ matched.out.rule = PostRules[matched.out.index]
    /\ RuleMatches(PostRules[matched.out.index], fromArg, gasArg)
    /\ \A j \in 1..(matched.out.index - 1) : ~RuleMatches(PostRules[j], fromArg, gasArg)

\* C2 witness: two different rules match, the first one is returned
C2_Witness ==
  /\ matched.ran
  /\ ~matched.out.threw
  /\ matched.out.index = 1
  /\ Len(PostRules) >= 2
  /\ RuleMatches(PostRules[2], fromArg, gasArg)
  /\ PostRules[2] # PostRules[1]

\* the matching condition as the claim words it: fromStatus among the rule's
\* comma-separated values or the rule's fromStatus is 'default', and gasStatus
\* equal to the rule's gasStatus or the rule's gasStatus is 'default'
C3_WordedMatch(rule) ==
  /\ \/ \E i \in 1..Len(rule.fromGrantsStatus) : Trim(rule.fromGrantsStatus[i]) = fromArg
     \/ rule.fromGrantsStatus = <<S("default")>>
  /\ \/ rule.gasStatus = <<S(gasArg)>>
     \/ rule.gasStatus = <<S("default")>>

C3_SideMatches(field, status) ==
  \/ field = <<>>
  \/ \E i \in 1..Len(field) : field[i].text = status \/ field[i].text = "default"

C3_AmendedMatch(rule) ==
  /\ C3_SideMatches(rule.fromGrantsStatus, fromArg)
  /\ C3_SideMatches(rule.gasStatus, gasArg)

Done(r) == pc[r] = "done"

\* the request is for a page of a grant whose definition has a grantCode
OnGrantPage(r) == SlugOf(path[r]) # NoValue /\ grantCode # NoValue

\* context.state.applicationStatus of the request
PrevStatus(r) == Get(context[r], "applicationStatus")

\* the calls of one kind that the request made
CallsOf(r, ops) == { i \in 1..Len(calls[r]) : calls[r][i].op \in ops }

Writes(r) == CallsOf(r, { "setState", "updateApplicationStatus" })

\* mapStatusToUrl returned a rule to handlePostSubmission
Matched(r) == ruleMatch[r] # NoRule /\ ~ruleMatch[r].threw

GasSays(status) == gas = [kind |-> "status", status |-> status]

StartUrl == <<"/", Slug>> \o StartPath

ResumeUrl == <<"/", Slug>> \o candidate.preSubmission[1].toPath

\* C4 as worded: with a stored status other than SUBMITTED and GAS at
\* AWAITING_AMENDMENTS the callback returns continue and writes no status,
\* whatever the path and the rest of the session state.
C4_Original ==
  \A r \in Tabs :
    (Done(r) /\ OnGrantPage(r) /\ PrevStatus(r) # "SUBMITTED" /\ GasSays("AWAITING_AMENDMENTS")) =>
      (result[r] = Continue /\ Writes(r) = {})

\* C4 amended: with a stored status other than SUBMITTED and GAS at
\* AWAITING_AMENDMENTS the callback calls neither GAS nor the store; it
\* returns continue, or - status unset, CLEARED or REOPENED, saved answers,
\* start page, no tasklist - redirects to the resume path.
C4_NoSecondReopening ==
  \A r \in Tabs :
    (Done(r) /\ OnGrantPage(r) /\ PrevStatus(r) # "SUBMITTED" /\ GasSays("AWAITING_AMENDMENTS")) =>
      /\ calls[r] = <<>>
      /\ \/ result[r] = Continue
         \/ /\ result[r] = Redirect(ResumeUrl)
            /\ PrevStatus(r) \in { NoValue, "CLEARED", "REOPENED" }
            /\ path[r] = StartUrl
            /\ tasklistId = NoValue
            /\ DOMAIN context[r] \ { "$$__referenceNumber", "applicationStatus" } # {}

\* C4 witness: a REOPENED application, GAS at AWAITING_AMENDMENTS, and the
\* request for the start page is redirected to the resume path
C4_Witness ==
  \E r \in Tabs :
    /\ Done(r)
    /\ PrevStatus(r) = "REOPENED"
    /\ GasSays("AWAITING_AMENDMENTS")
    /\ path[r] = StartUrl
    /\ result[r] = Redirect(ResumeUrl)

\* the GAS status in force for the request: the one it fetched, or, for a
\* request that returned without fetching, the one GAS holds
GasSeen(r) ==
  IF gasStatus[r] # NoValue THEN gasStatus[r]
  ELSE IF calls[r] = <<>> /\ gas.kind = "status" THEN gas.status
  ELSE NoValue

\* C5 as worded, under the standard rule table: APPLICATION_WITHDRAWN moves a
\* stored SUBMITTED or REOPENED to CLEARED, and with any other stored status
\* nothing is written.
C5_Original ==
  \A r \in Tabs :
    (Done(r) /\ OnGrantPage(r) /\ candidate.postSubmission = StandardRules
      /\ GasSeen(r) = "APPLICATION_WITHDRAWN" /\ caught[r] = NoError) =>
      IF PrevStatus(r) \in { "SUBMITTED", "REOPENED" }
      THEN Get(state, "applicationStatus") = "CLEARED"
      ELSE Writes(r) = {}

\* C5 as implemented, under the standard rule table: APPLICATION_WITHDRAWN
\* moves a stored SUBMITTED to CLEARED; with any other stored status,
\* REOPENED included, the call writes nothing and the status stays.
C5_AsImplemented ==
  \A r \in Tabs :
    (Done(r) /\ OnGrantPage(r) /\ candidate.postSubmission = StandardRules
      /\ GasSeen(r) = "APPLICATION_WITHDRAWN" /\ caught[r] = NoError) =>
      IF PrevStatus(r) = "SUBMITTED"
      THEN Get(state, "applicationStatus") = "CLEARED"
      ELSE Writes(r) = {} /\ Get(state, "applicationStatus") = PrevStatus(r)

\* C6: when the matched rule's toGrantsStatus equals the previous status the
\* request calls neither setState nor updateApplicationStatus.
C6_NoWriteWhenUnchanged ==
  \A r \in Tabs :
    (Matched(r) /\ ruleMatch[r].rule.toGrantsStatus = PrevStatus(r)) => Writes(r) = {}

\* C6 witness: SUBMITTED to SUBMITTED, the request returned after the fetch alone
C6_Witness ==
  \E r \in Tabs :
    /\ Done(r)
    /\ Matched(r)
    /\ PrevStatus(r) = "SUBMITTED"
    /\ ruleMatch[r].rule.toGrantsStatus = "SUBMITTED"
    /\ Len(calls[r]) = 1
    /\ calls[r][1].op = "getApplicationStatus"

\* C7: when the matched rule's toGrantsStatus differs from the previous status
\* exactly one write is made: for CLEARED one setState with
\* {applicationStatus: CLEARED}, which replaces the whole session state, for
\* any other status one updateApplicationStatus(newStatus, '<sbi>:<slug>').
C7_ExactlyOneWrite ==
  \A r \in Tabs :
    (Matched(r) /\ ruleMatch[r].rule.toGrantsStatus # PrevStatus(r)) =>
      LET newStatus == ruleMatch[r].rule.toGrantsStatus
      IN  /\ Cardinality(Writes(r)) = 1
          /\ \A i \in Writes(r) :
               IF newStatus = "CLEARED"
               THEN calls[r][i] = [op |-> "setState", state |-> [applicationStatus |-> "CLEARED"]]
               ELSE calls[r][i] = [op |-> "updateApplicationStatus", status |-> newStatus,
                                   key |-> <<Sbi, ":", Slug>>]
          /\ (Done(r) /\ caught[r] = NoError /\ newStatus = "CLEARED") =>
               state = [applicationStatus |-> "CLEARED"]

\* C7 witness: the CLEARED write replaced a session state that held an answer
C7_Witness ==
  \E r \in Tabs :
    /\ Done(r)
    /\ Matched(r)
    /\ ruleMatch[r].rule.toGrantsStatus = "CLEARED"
    /\ HasKey(context[r], "question")
    /\ calls[r][2].op = "setState"
    /\ state = [applicationStatus |-> "CLEARED"]

\* the destination handlePostSubmission computes from a rule
Destination(matchedRule) ==
  IF matchedRule.toPath = BaseUrl THEN BaseUrl ELSE <<"/", Slug>> \o matchedRule.toPath

\* C8: a post-submission redirect never points at the path being requested;
\* a request already at the destination of its matched rule - the second
\* reconciliation at /{slug}/confirmation - gets continue.
C8_NoRedirectToSelf ==
  \A r \in Tabs :
    /\ (Done(r) /\ calls[r] # <<>> /\ result[r].kind = "redirect") => result[r].url # path[r]
    /\ (Done(r) /\ Matched(r) /\ caught[r] = NoError /\ path[r] = Destination(ruleMatch[r].rule)) =>
         result[r] = Continue

\* C8 witness: the redirect to /{slug}/confirmation was followed and the
\* second reconciliation there returned continue
C8_Witness ==
  \E r \in Tabs :
    /\ Done(r)
    /\ hops[r] = 1
    /\ path[r] = <<"/", Slug>> \o Path("confirmation")
    /\ PrevStatus(r) = "SUBMITTED"
    /\ gasStatus[r] = "RECEIVED"
    /\ result[r] = Continue

\* C9: following the redirects under an unchanged GAS answer ends: a request
\* reached by MaxHops followed redirects is not redirected again.
C9_NoRedirectLoop ==
  \A r \in Tabs : (Done(r) /\ hops[r] = MaxHops) => result[r].kind # "redirect"

\* the literal default/default rule, first of its kind in the list
IsDefaultDefault(matchedRule) ==
  matchedRule.fromGrantsStatus = <<S("default")>> /\ matchedRule.gasStatus = <<S("default")>>

FallbackUrl ==
  <<"/", Slug>> \o candidate.postSubmission[FirstSuch(candidate.postSubmission, IsDefaultDefault)].toPath

\* the status fetch of the request failed with something else than not-found
FetchFailed(r) ==
  /\ Done(r)
  /\ caught[r].message = "status fetch failed"
  /\ caught[r].status # notFound

\* C10: when the status fetch fails with anything but not-found the request
\* logs the failure last, writes no status, does not throw, and is redirected
\* to the destination of the default/default rule unless it is already there.
C10_FallbackOnFailure ==
  \A r \in Tabs :
    FetchFailed(r) =>
      /\ PrevStatus(r) = "SUBMITTED"
      /\ Writes(r) = {}
      /\ Len(calls[r]) = 2
      /\ calls[r][2] = [op |-> "log", code |-> "SUBMISSION_REDIRECT_FAILURE",
                        grantType |-> grantCode, referenceNumber |-> ReferenceNumber,
                        error |-> caught[r].message]
      /\ result[r] = IF path[r] = FallbackUrl THEN Continue ELSE Redirect(FallbackUrl)

\* C10 witness: GAS is down and the request, already at the fallback
\* destination, continues
C10_Witness ==
  \E r \in Tabs :
    /\ FetchFailed(r)
    /\ path[r] = FallbackUrl
    /\ result[r] = Continue
    /\ hops[r] = 1

\* C11: the fallback branch computes its destination from the default/default
\* rule's path exactly as the success branch computes it from a matched rule's
\* path: a fallback redirect goes where a match of that rule would go.
C11_SameDestination ==
  \A r \in Tabs :
    (FetchFailed(r) /\ result[r].kind = "redirect") =>
      result[r].url =
        Destination(candidate.postSubmission[FirstSuch(candidate.postSubmission, IsDefaultDefault)])

\* C12: when the status fetch fails with not-found the request returns
\* continue: no log entry, no status write, no redirect; the fetch is the
\* only call it made.
C12_NotFoundContinues ==
  \A r \in Tabs :
    (Done(r) /\ caught[r] = [status |-> notFound, message |-> "status fetch failed"]) =>
      /\ result[r] = Continue
      /\ Len(calls[r]) = 1
      /\ calls[r][1].op = "getApplicationStatus"

\* C12 witness: GAS has no such application and the request for the
\* confirmation page, away from the fallback destination, continues
C12_Witness ==
  \E r \in Tabs :
    /\ Done(r)
    /\ caught[r] = [status |-> notFound, message |-> "status fetch failed"]
    /\ PrevStatus(r) = "SUBMITTED"
    /\ path[r] # FallbackUrl
    /\ result[r] = Continue

\* C13: when the status write fails during reconciliation the failure leaves
\* formsStatusCallback as a throw: it is not turned into a continue or a
\* redirect.
C13_WriteFailurePropagates ==
  \A r \in Tabs :
    (Done(r) /\ caught[r].message = "status write failed") => result[r].kind = "throw"

\* C14: when no rule matches the (previousStatus, gasStatus) pair,
\* formsStatusCallback throws 'No redirect rule found'; it neither returns
\* continue nor redirects to a default destination, and it writes no status.
C14_NoRuleThrows ==
  \A r \in Tabs :
    (Done(r) /\ ruleMatch[r] # NoRule /\ ruleMatch[r].threw) =>
      /\ result[r] = [kind |-> "throw", error |-> "No redirect rule found"]
      /\ Writes(r) = {}

\* C14 witness: a rule list without a rule for the GAS status, and the
\* request of a SUBMITTED application threw
C14_Witness ==
  \E r \in Tabs :
    /\ Done(r)
    /\ candidate.postSubmission = NoFallbackRules
    /\ PrevStatus(r) = "SUBMITTED"
    /\ gasStatus[r] = "AWAITING_AMENDMENTS"
    /\ ruleMatch[r].threw
    /\ result[r].kind = "throw"

\* C15: on a successful status fetch a redirect goes to /{slug}{toPath} when
\* the matched rule's path is relative to the grant, and to the rule's path
\* unchanged, without the slug, when it is the absolute path of the
\* agreements service (agreements.get('baseUrl')).
C15_RedirectDestination ==
  \A r \in Tabs :
    (Done(r) /\ Matched(r) /\ caught[r] = NoError /\ result[r].kind = "redirect") =>
      LET toPath == ruleMatch[r].rule.toPath
      IN  IF toPath = BaseUrl
          THEN result[r].url = toPath
          ELSE result[r].url = <<"/", SlugOf(path[r])>> \o toPath

\* C15 witness: an offer was sent and the request is redirected to the
\* agreements service, outside the grant's own pages
C15_Witness ==
  \E r \in Tabs :
    /\ Done(r)
    /\ candidate.postSubmission = StandardRules
    /\ gasStatus[r] = "OFFER_SENT"
    /\ ruleMatch[r].rule.toPath = BaseUrl
    /\ result[r] = [kind |-> "redirect", url |-> <<"/", "agreement">>]

PreSubmissionStatuses == { NoValue, "CLEARED", "REOPENED" }

\* C16 as worded: with the status unset, CLEARED or REOPENED the request is
\* redirected to the resume path exactly when the session state has a field
\* other than the reference number and the application status, the request
\* is for the start page and the journey is no tasklist; otherwise continue.
C16_Original ==
  \A r \in Tabs :
    (Done(r) /\ OnGrantPage(r) /\ PrevStatus(r) \in PreSubmissionStatuses) =>
      IF /\ DOMAIN context[r] \ { "$$__referenceNumber", "applicationStatus" } # {}
         /\ path[r] = StartUrl
         /\ tasklistId = NoValue
      THEN result[r] = Redirect(ResumeUrl)
      ELSE result[r] = Continue

\* the fields that count as saved answers: every field but the bookkeeping
\* ones, landParcels counting only when it holds a parcel
SavedAnswers(st) ==
  { k \in DOMAIN st :
      /\ k \notin { "$$__referenceNumber", "applicationStatus", "applicant",
                    "selectedLandParcel", "payment", "draftApplicationAnnualTotalPence" }
      /\ (k = "landParcels" => st[k] # {}) }

\* C16 amended: as worded, with the bookkeeping fields being the reference
\* number, the application status, applicant, selectedLandParcel, payment,
\* draftApplicationAnnualTotalPence and an empty or missing landParcels.
C16_ResumeGuard ==
  \A r \in Tabs :
    (Done(r) /\ OnGrantPage(r) /\ PrevStatus(r) \in PreSubmissionStatuses) =>
      IF /\ SavedAnswers(context[r]) # {}
         /\ path[r] = StartUrl
         /\ tasklistId = NoValue
      THEN result[r] = Redirect(ResumeUrl)
      ELSE result[r] = Continue

\* C16 witness: a CLEARED application with a saved answer, and the request
\* for the start page is redirected to the resume path
C16_Witness ==
  \E r \in Tabs :
    /\ Done(r)
    /\ PrevStatus(r) = "CLEARED"
    /\ HasKey(context[r], "question")
    /\ path[r] = StartUrl
    /\ result[r] = Redirect(ResumeUrl)

\* C17: a request calls getApplicationStatus at most once, and makes no call
\* at all - no status call, no write - unless its route has a grant slug and
\* the stored status is exactly SUBMITTED.
C17_FetchOnlyWhenSubmitted ==
  \A r \in Tabs :
    /\ Cardinality(CallsOf(r, { "getApplicationStatus" })) <= 1
    /\ (SlugOf(path[r]) = NoValue \/ PrevStatus(r) # "SUBMITTED") => calls[r] = <<>>

\* C17 witness: a stored status of the grant's own, neither SUBMITTED nor one
\* of the pre-submission statuses, and the request made no call
C17_Witness ==
  \E r \in Tabs :
    /\ Done(r)
    /\ OnGrantPage(r)
    /\ PrevStatus(r) = "OFFER_MADE"
    /\ calls[r] = <<>>
    /\ result[r] = Continue

\* C18: on a route with a grant slug, a definition without grantCode makes
\* formsStatusCallback throw the configuration error whatever the stored
\* status is, before any status call, write or redirect.
C18_MissingGrantCodeThrows ==
  \A r \in Tabs :
    (pc[r] # "idle" /\ SlugOf(path[r]) # NoValue /\ grantCode = NoValue) =>
      /\ Done(r)
      /\ result[r] = [kind |-> "throw",
                       error |-> "grantCode missing from request.app.model.def.metadata.submission"]
      /\ calls[r] = <<>>

\* C18 witness: no grantCode, a SUBMITTED application, and the request threw
C18_Witness ==
  \E r \in Tabs :
    /\ Done(r)
    /\ grantCode = NoValue
    /\ PrevStatus(r) = "SUBMITTED"
    /\ result[r].kind = "throw"
    /\ calls[r] = <<>>

\* the literal default/default rules of a list
FallbackRules(rules) == { i \in 1..Len(rules) : IsDefaultDefault(rules[i]) }

\* C19: a post-submission list that passed validateGrantRedirectRules has
\* exactly one rule with fromGrantsStatus 'default' and gasStatus 'default'.
C19_ExactlyOneFallback ==
  verdict = "ok" => Cardinality(FallbackRules(candidate.postSubmission)) = 1

C21_ExactlyOnePreSubmissionRule ==
  verdict # NoValue =>
    /\ Len(candidate.preSubmission) # 1 => verdict = "preError"
    /\ verdict = "ok" =>
          /\ Len(candidate.preSubmission) = 1
          /\ StartsWithSlash(candidate.preSubmission[1].toPath)

\* a two-rule pre-submission list, each rule valid, has been rejected
C21_Witness ==
  /\ verdict = "preError"
  /\ Len(candidate.preSubmission) = 2
  /\ \A i \in 1..2 : preSubmissionRuleSchema(candidate.preSubmission[i])
  /\ hasFallbackRule(candidate.postSubmission)

\* ---------------------------------------------------------------- C22
\* every field the post-submission schema requires is there and the path
\* begins with "/"
WellFormedRule(rule) ==
  /\ rule.fromGrantsStatus # <<>>
  /\ rule.gasStatus # <<>>
  /\ rule.toGrantsStatus \notin {NoValue, ""}
  /\ rule.toPath # <<>>
  /\ StartsWithSlash(rule.toPath)

\* one pre-submission rule and a non-empty list of well-formed rules
WellFormedDefinition ==
  /\ Len(candidate.preSubmission) = 1
  /\ StartsWithSlash(candidate.preSubmission[1].toPath)
  /\ Len(PostRules) > 0
  /\ \A i \in 1..Len(PostRules) : WellFormedRule(PostRules[i])

C23_OnlyLifecycleStatuses ==
  (verdict = "ok" /\ HasKey(state, "applicationStatus")) =>
    Get(state, "applicationStatus") \in {"SUBMITTED", "REOPENED", "CLEARED"}

\* ---------------------------------------------------------------- C24
\* the changes of the stored status the lifecycle allows
StatusEdges ==
  { <<NoValue, "SUBMITTED">>, <<"SUBMITTED", "REOPENED">>, <<"SUBMITTED", "CLEARED">>,
    <<"REOPENED", "SUBMITTED">>, <<"CLEARED", "SUBMITTED">> }

\* C24: with the standard rule table and the requests of the session handled
\* one at a time, every step that changes the stored applicationStatus takes
\* it along one of the edges unset -> SUBMITTED, SUBMITTED -> REOPENED,
\* SUBMITTED -> CLEARED, REOPENED -> SUBMITTED, CLEARED -> SUBMITTED.
C24_StatusFollowsEdges ==
  [][ (verdict = "ok" /\ PostRules = StandardRules) =>
        \/ Get(state', "applicationStatus") = Get(state, "applicationStatus")
        \/ <<Get(state, "applicationStatus"), Get(state', "applicationStatus")>> \in StatusEdges ]_vars

\* a withdrawn application was cleared by a reconciliation that read SUBMITTED
C24_Witness ==
  \E r \in Tabs :
    /\ PostRules = StandardRules
    /\ Done(r)
    /\ PrevStatus(r) = "SUBMITTED"
    /\ Get(state, "applicationStatus") = "CLEARED"
    /\ Writes(r) # {}

\* ---------------------------------------------------------------- C25
\* the step applies the status write that request r issued
WriteApplied(r) == pc[r] = "writing" /\ pc'[r] = "done" /\ caught'[r] = NoError

\* C25: when the status write of a request is applied to a store whose
\* status is no longer the one the request read, because another request has
\* moved it on in the meantime, the stored status stays what it is: the write
\* based on the older status does not overwrite it.
C25_NoStaleOverwrite ==
  [][ \A r \in Tabs :
        (WriteApplied(r) /\ Get(state, "applicationStatus") # PrevStatus(r)) =>
          Get(state', "applicationStatus") = Get(state, "applicationStatus") ]_vars

\* ---------------------------------------------------------------- C26
\* the status the write of request r carries
WrittenStatus(r) ==
  LET call == calls[r][CHOOSE i \in Writes(r) : TRUE]
  IN  IF call.op = "setState" THEN Get(call.state, "applicationStatus") ELSE call.status

\* a request at a suspension point of the reconciliation can always take its
\* next step, whatever the other request is doing, and no request issues more
\* than one status write
NoWaitingOneWrite ==
  \A r \in Tabs :
    /\ pc[r] = "fetching" => ENABLED (StatusFetched(r) \/ StatusFetchFailed(r))
    /\ pc[r] = "writing" => ENABLED StatusWritten(r)
    /\ Cardinality(Writes(r)) <= 1

\* whenever a status write is applied, the stored status becomes the status
\* that write carries, whatever the store held
LastWriterWins ==
  \A r \in Tabs : WriteApplied(r) => Get(state', "applicationStatus") = WrittenStatus(r)

\* C26: reconciliation takes no lock and waits for nobody: with two
\* concurrent requests each one can always take its next step, each issues at
\* most one status write, and every applied write sets the stored status, so
\* the store ends with the status of the write applied last.
C26_NoLockLastWriterWins ==
  [](NoWaitingOneWrite) /\ [][LastWriterWins]_vars

\* both tabs have completed a reconciliation with a write each, and the store
\* holds the status of one of them although the two differ
C26_Witness ==
  /\ \A r \in Tabs : Done(r) /\ Cardinality(Writes(r)) = 1 /\ caught[r] = NoError
  /\ WrittenStatus("t1") # WrittenStatus("t2")
  /\ Get(state, "applicationStatus") = WrittenStatus("t1")

\* ---------------------------------------------------------------- C27
\* a request that the timeout ended has taken the fallback branch: it was
\* logged and answered with the redirect to the default/default destination,
\* or continued when already there
TimedOutFallsBack ==
  \A r \in Tabs :
    (Done(r) /\ caught[r] = TimeoutError) =>
      /\ CallsOf(r, { "log" }) # {}
      /\ Writes(r) = {}
      /\ result[r] = (IF path[r] = FallbackUrl THEN Continue ELSE Redirect(FallbackUrl))

OfferStatuses == { "OFFER_SENT", "OFFER_WITHDRAWN", "OFFER_ACCEPTED" }

\* C28: with the shared rule table, stored status SUBMITTED and an offer
\* status from GAS, a request for a grant other than farm-payments is sent
\* to /{slug}/confirmation (or continues when it is already there), never to
\* the agreements-service URL.
C28_OnlyFarmPaymentsToAgreements ==
  \A r \in Tabs :
    ( /\ Done(r)
      /\ verdict = "ok"
      /\ PostRules = StandardRules
      /\ PrevStatus(r) = "SUBMITTED"
      /\ gasStatus[r] \in OfferStatuses
      /\ caught[r] = NoError
      /\ SlugOf(path[r]) \notin { NoValue, "farm-payments" } )
    => result[r] = RedirectUnlessThere(path[r], <<"/", SlugOf(path[r])>> \o Path("confirmation"))

\* ---------------------------------------------------------------- C29
\* the GAS submit calls of a request
Submissions(r) == CallsOf(r, { "submitGrantApplication" })

\* C29: a request that found the stored status SUBMITTED never sends the
\* application to GAS again: its POST handler does not call the GAS submit.
C29_NoSecondSubmission ==
  \A r \in Tabs : PrevStatus(r) = "SUBMITTED" => Submissions(r) = {}

\* ---------------------------------------------------------------- C30
SubmissionKeys == { "applicationStatus", "submittedAt", "submittedBy" }

\* the step is an accepted submission: with no request in flight the stored
\* status becomes SUBMITTED
SubmissionAccepted ==
  /\ Quiet
  /\ Get(state, "applicationStatus") # "SUBMITTED"
  /\ Get(state', "applicationStatus") = "SUBMITTED"

\* C30: when GAS accepts a submission with status 204 the session state
\* becomes the previous state with applicationStatus = SUBMITTED, the
\* submission time and the submitter's CRN added; no other key is added,
\* dropped or changed.
C30_SubmissionFrame ==
  [][ SubmissionAccepted =>
        /\ DOMAIN state' = DOMAIN state \cup SubmissionKeys
        /\ state'["submittedAt"] = "now"
        /\ state'["submittedBy"] = Crn
        /\ \A k \in DOMAIN state \ SubmissionKeys : state'[k] = state[k] ]_vars

\* a session with a saved answer has been submitted and still holds the
\* answer and its reference number
C30_Witness ==
  /\ Get(state, "applicationStatus") = "SUBMITTED"
  /\ Get(state, "submittedBy") = Crn
  /\ Get(state, "question") = "answer"
  /\ Get(state, "$$__referenceNumber") = ReferenceNumber

\* ---------------------------------------------------------------- C31
\* the validateApplication calls of a request, and those that did not
\* resolve valid
Validations(r) == CallsOf(r, { "validateApplication" })

FailedValidations(r) == { j \in Validations(r) : calls[r][j].outcome # "valid" }

\* every GAS submit follows a validation of the same request that resolved
\* valid; a request whose validation was invalid or rejected has sent
\* nothing to GAS, has issued no state write and was answered with the
\* submission-error view
SubmitOnlyWhenValid ==
  \A r \in Tabs :
    /\ \A i \in Submissions(r) :
         \E j \in Validations(r) : j < i /\ calls[r][j].outcome = "valid"
    /\ FailedValidations(r) # {} =>
         /\ Submissions(r) = {}
         /\ CallsOf(r, { "handleSuccessfulSubmission" }) = {}
         /\ pc[r] = "done"
         /\ result[r] = View("submission-error")

\* the step in which a validation fails leaves the session state as it is
FailedValidationKeepsState ==
  \A r \in Tabs :
    (FailedValidations(r) = {} /\ Len(calls'[r]) > Len(calls[r])
       /\ calls'[r][Len(calls'[r])].op = "validateApplication"
       /\ calls'[r][Len(calls'[r])].outcome # "valid")
    => state' = state

\* C31: the submission handler calls the GAS submit only after
\* validateApplication resolved valid for the same request; when validation
\* resolves invalid or rejects, the GAS submit is not called, the session
\* state stays unchanged and the submission-error view is returned.
C31_SubmitOnlyAfterValidation ==
  [](SubmitOnlyWhenValid) /\ [][FailedValidationKeepsState]_vars

\* a POST whose validation resolved invalid was answered with the error view
C31_Witness ==
  \E r \in Tabs :
    /\ Done(r)
    /\ \E j \in Validations(r) : calls[r][j].outcome = "invalid"
    /\ Submissions(r) = {}
    /\ result[r] = View("submission-error")

\* ------------------------------------------- claims on the lifecycle guard

\* C34: a request of formsStatusCallback writes a status only when the stored
\* status it read is SUBMITTED, and shouldContinueDefault is false in every
\* execution that reaches it.
C34_GuardNeverTrue ==
  \A r \in Tabs :
    /\ Writes(r) # {} => PrevStatus(r) = "SUBMITTED"
    /\ Matched(r) =>
          /\ PrevStatus(r) = "SUBMITTED"
          /\ ~shouldContinueDefault(gasStatus[r], ruleMatch[r].rule.toGrantsStatus, PrevStatus(r))

\* C34 witness: GAS awaits amendments, the rule reopens the application and
\* the request wrote REOPENED: the guard is reached and is false
C34_Witness ==
  \E r \in Tabs :
    /\ Done(r)
    /\ Matched(r)
    /\ gasStatus[r] = "AWAITING_AMENDMENTS"
    /\ ruleMatch[r].rule.toGrantsStatus = "REOPENED"
    /\ Writes(r) # {}
    /\ Get(state, "applicationStatus") = "REOPENED"

\* ------------------------------------------- claims on the served rule tables

SubmittedWrites(r) == CallsOf(r, { "handleSuccessfulSubmission" })

\* C36: the submission handler redirects to the confirmation page only after
\* it has written applicationStatus SUBMITTED to the session state.
C36_ConfirmationOnlyAfterSubmittedWritten ==
  \A r \in Tabs :
    (Done(r) /\ Submissions(r) # {} /\ result[r] = Redirect(ConfirmationPath)) =>
      /\ SubmittedWrites(r) # {}
      /\ \A i \in SubmittedWrites(r) : Get(calls[r][i].state, "applicationStatus") = "SUBMITTED"

\* C37: only a not-found answer of the Grant Status Client means 'no
\* submission yet': a status write that rejects with status 404 is not
\* silently answered with continue.
C37_WriteNotFoundNotSilenced ==
  \A r \in Tabs :
    (Done(r) /\ caught[r].message = "status write failed" /\ caught[r].status = notFound) =>
      ~(result[r] = Continue /\ CallsOf(r, { "log" }) = {})

\* ------------------------------------------------ claims on the server's runs

\* the backend answers that make the fetch of the saved state fail
FetchFails == backend.kind \in { "network", "badJson" }
                \/ (backend.kind = "status" /\ backend.status # notFound)

HydrationLogged(level) == \E i \in DOMAIN hydration.logged : hydration.logged[i].level = level

\* C32: when fetching the saved session state fails (backend unavailable,
\* network error, non-404 status), the failure is logged and the fetch yields
\* no state to its caller instead of an error.
C32_FailedFetchYieldsNoState ==
  (hydration.ran /\ FetchFails) =>
    /\ HydrationLogged("error")
    /\ ~hydration.threw
    /\ hydration.value = NullValue

\* ------------------------------------------------ claims on cookie validation

\* the token of the validated session needed no refresh
TokenUsable(userSession) ==
  ~defraIdEnabled \/ userSession.token = "" \/ ~userSession.expired

\* C33: cookie validation returns valid only if the session id has a cache
\* entry and, with Defra ID enabled and a token held, the token is unexpired
\* or a refresh succeeded and its tokens are stored under the same id; a
\* missing session, an expired token with refresh disabled, and a failed
\* refresh yield invalid.
C33_ValidOnlyWithUsableSession ==
  validated.ran =>
    /\ validated.isValid =>
          /\ validated.before.found
          /\ \/ TokenUsable(validated.before) /\ cache[validated.sessionId] = validated.before
             \/ /\ validated.refresh = "stored"
                /\ cache[validated.sessionId].found
                /\ ~cache[validated.sessionId].expired
                /\ cache[validated.sessionId] = validated.credentials
    /\ ~validated.before.found => ~validated.isValid
    /\ (validated.before.found /\ ~TokenUsable(validated.before) /\ ~refreshEnabled)
          => ~validated.isValid
    /\ validated.refresh \in { "rejected", "notStored" } => ~validated.isValid

\* an expired token was refreshed, the new tokens stored under the same id
\* and the request accepted
C33_Witness ==
  /\ validated.ran
  /\ validated.isValid
  /\ validated.refresh = "stored"
  /\ validated.before.expired
  /\ cache[validated.sessionId].token # validated.before.token

\* ---------------------------------------------------- claims on form loading

\* the shared rules as formsService lays them under a form's own
SharedRules == loadSharedRedirectRules(shared)

Lists == { "preSubmission", "postSubmission" }

\* C38: a list a form defines itself replaces the shared list of the same
\* name as a whole, never appended to it; a list the form does not define is
\* the shared one, so a form that defines neither inherits both; and the
\* validation verdict is the verdict on the merged result.
C38_OwnListReplacesShared ==
  verdict # NoValue =>
    /\ \A k \in Lists :
          /\ HasKey(own, k) => candidate[k] = own[k]
          /\ (~HasKey(own, k) /\ HasKey(SharedRules, k)) => candidate[k] = SharedRules[k]
          /\ (HasKey(own, k) /\ HasKey(SharedRules, k) /\ own[k] # <<>>) =>
                candidate[k] # SharedRules[k] \o own[k]
    /\ verdict = validateGrantRedirectRules(candidate)

\* C38 witness: the form brings its own post-submission list and inherits
\* the shared pre-submission list; the merged definition passes validation
C38_Witness ==
  /\ verdict = "ok"
  /\ HasKey(own, "postSubmission")
  /\ ~HasKey(own, "preSubmission")
  /\ candidate.postSubmission = CustomRules
  /\ candidate.postSubmission # SharedRules["postSubmission"]
  /\ candidate.preSubmission = SharedRules["preSubmission"]

\* ------------------------------------------------- claims on the session key

\* the key of the identity derived from an SBI
SbiKey(s) == <<"user_", s, ":", "business_", s, ":", "grant_", s>>

\* C39 as worded: whenever generateKey is called it returns the key derived
\* from the SBI that is current at the call.
C39_Original == generateKey.key = SbiKey(sbi)

\* the cache was cleared and the next call filled it again
Recomputed == (cachedKey = NullKey /\ cachedKey' # NullKey) => cachedKey' = KeyOf(getIdentity)'

\* C39: whenever generateKey is called it returns the key of the identity
\* getIdentity yields for the SBI current at the call - derived from that SBI
\* when the SBI selector is enabled, the fixed placeholder key otherwise -
\* and never a key cached for another SBI; after clearCachedKey the next
\* call computes the key anew.
C39_KeyNeverStale ==
  /\ [](generateKey.key = KeyOf(getIdentity))
  /\ [](sbiSelectorEnabled => generateKey.key = SbiKey(sbi))
  /\ [][Recomputed]_vars

\* C39 witness: the SBI changed after a key was cached for the previous one,
\* and the call at hand returns the key of the new SBI
C39_Witness ==
  /\ sbiSelectorEnabled
  /\ cachedKey # NullKey
  /\ cachedSbi # sbi
  /\ cachedKey = SbiKey(cachedSbi)
  /\ generateKey.key = SbiKey(sbi)
  /\ generateKey.key # cachedKey

====
